---- MODULE Spec2Model ----
(***************************************************************************)
(* A model of the cv-search service: the hybrid retrieval-and-ranking      *)
(* pipeline (HybridSearchEngine.Search, fuseResults, LLMScorer, LLMCache)  *)
(* and the CV ingest pipeline (CVUploadHandler, cvProcessingWorker).       *)
(*                                                                         *)
(* Scores are float64 in the program.  The model keeps them exact: a raw   *)
(* retriever score is an integer, an axis score is an integer number of    *)
(* 1/Scale, and a fusion or LLM score an integer number of 1/Unit.         *)
(***************************************************************************)
EXTENDS Integers, Sequences, FiniteSets, TLC

VARIABLES
    \* HybridSearchEngine.Search: one call at a time
    pc,              \* position of the Search call
    query,           \* its query
    config,          \* its HybridSearchConfig
    world,           \* what the stores and providers answer during the call
    gor,             \* the three retriever goroutines
    errChan,         \* errChan, buffered
    recvCount,       \* i of the receive loop
    bm25Results, vectorResults, graphResults,   \* the three received lists
    fusedCandidates, \* []FusedCandidate
    searchResult,    \* what Search returned: [ok, list, err]
    scorerCache,     \* the LLMCache of the LLMScorer the call made
    calls,           \* history: what each Search call asked of the scorer
    \* LLMCache on its own
    cache,           \* entries of an LLMCache
    setLog,          \* history: the latest Set per (query, ids) since the last Clear
    lastGet,         \* the Get that has just returned
    now,             \* the clock
    \* CV ingest
    llmService,        \* a.llmService: "set" or "nil"
    uploads,           \* the CVUploadHandler requests
    cvFiles,           \* table cv_files, the index is the id
    jobs,              \* table cv_upload_jobs, the index is the id
    trace,             \* history: what happened to each job
    cvProcessingQueue, \* a.cvProcessingQueue
    embeddingQueue,    \* a.embeddingQueue
    embeddingDropped,  \* history: the CV ids of the embedding jobs that were dropped
    worker,            \* the cvProcessingWorker goroutine
    graphNodes,        \* table graph_nodes: (node_type, node_id) -> properties
    graphEdges,        \* table graph_edges, one element per row
    \* HybridSearchHandler
    hybridSearchEngine, \* a.hybridSearchEngine: "set" or "nil"
    request,            \* the request the handler was given
    response,           \* what the handler wrote
    \* functions exercised on their own
    llmResponse,        \* the LLM response given to parseScoreResponse
    scoreResponse,      \* what parseScoreResponse returned
    skills,             \* the skill list and the threshold given to FindCommunities
    membership,         \* what FindCommunities returned
    callArgs,           \* the arguments of a store query or text function called on its own
    callResult          \* what that call returned

searchVars == <<pc, query, config, world, gor, errChan, recvCount, bm25Results,
                vectorResults, graphResults, fusedCandidates, searchResult,
                scorerCache, calls>>
cacheVars == <<cache, setLog, lastGet>>
ingestVars == <<llmService, uploads, cvFiles, jobs, trace, cvProcessingQueue,
                embeddingQueue, embeddingDropped, worker, graphNodes, graphEdges>>
httpVars == <<hybridSearchEngine, request, response>>
pureVars == <<llmResponse, scoreResponse, skills, membership, callArgs, callResult>>
vars == <<searchVars, cacheVars, now, ingestVars, httpVars, pureVars>>

-----------------------------------------------------------------------------
(* Bounds *)

MaxList == 2      \* longest list a retriever returns
MaxRaw == 2       \* largest raw retriever score

(* Program constants *)

RRFK == 60            \* k of reciprocal rank fusion
GraphZeroMax == 100   \* maxGraphScore when every match score is 0

-----------------------------------------------------------------------------
(* Exact arithmetic *)

RECURSIVE GCD(_, _)
GCD(a, b) == IF b = 0 THEN a ELSE GCD(b, a % b)

LCM(a, b) == (a * b) \div GCD(a, b)

RECURSIVE LCMSet(_)
LCMSet(S) ==
    IF S = {} THEN 1
    ELSE LET x == CHOOSE y \in S : TRUE IN LCM(x, LCMSet(S \ {x}))

\* One axis score (s/max + 1/(60+r))/2 is a whole number of 1/Scale.
Scale == LCMSet({2 * m * (RRFK + r) : m \in 1..MaxRaw, r \in 1..MaxList})

\* Weights are tenths, so a fusion score is a whole number of 1/Unit.
Unit == 10 * Scale

-----------------------------------------------------------------------------
(* Data *)

PersonIDs == {"person_1", "person_2"}
CandIDs == {1, 2}
RawScores == 0..MaxRaw

\* Go's string order on the person ids that occur
IdRank(id) ==
    CASE id = "" -> 0
      [] id = "person_1" -> 1
      [] id = "person_2" -> 2
      [] OTHER -> 3

\* properties.name of a person node; "" when the extraction produced no name
PersonName(p) == IF p = "person_1" THEN "Ann" ELSE "Bea"

BM25Result == [CandidateID : CandIDs, Name : {"Cem"}, Rank : RawScores]
VectorSearchResult == [PersonID : PersonIDs, Similarity : RawScores]
CandidateResult ==
    UNION {[PersonID : {p}, Name : {"", PersonName(p)}, MatchScore : RawScores] :
           p \in PersonIDs}

SeqsUpTo(S, n) == UNION {[1..k -> S] : k \in 0..n}

\* BM25Searcher.Search: rows of candidates (id is the primary key), ORDER BY rank DESC
BM25Lists ==
    {l \in SeqsUpTo(BM25Result, MaxList) :
        \A i, j \in 1..Len(l) :
            i < j => /\ l[i].CandidateID # l[j].CandidateID
                     /\ l[i].Rank >= l[j].Rank}

\* SimilaritySearch: person nodes ((node_type, node_id) unique), ORDER BY similarity ASC
VectorLists ==
    {l \in SeqsUpTo(VectorSearchResult, MaxList) :
        \A i, j \in 1..Len(l) :
            i < j => /\ l[i].PersonID # l[j].PersonID
                     /\ l[i].Similarity <= l[j].Similarity}

\* QueryGraph: SELECT DISTINCT person nodes, then sorted by MatchScore descending
GraphLists ==
    {l \in SeqsUpTo(CandidateResult, MaxList) :
        \A i, j \in 1..Len(l) :
            i < j => /\ l[i].PersonID # l[j].PersonID
                     /\ l[i].MatchScore >= l[j].MatchScore}

\* weights in tenths; FinalTopN = 0 means no limit
DefaultHybridConfig == [BM25Weight |-> 3, VectorWeight |-> 4, GraphWeight |-> 3, FinalTopN |-> 0]
Configs ==
    {DefaultHybridConfig,
     [BM25Weight |-> 0, VectorWeight |-> 6, GraphWeight |-> 4, FinalTopN |-> 0],
     [BM25Weight |-> 3, VectorWeight |-> 4, GraphWeight |-> 3, FinalTopN |-> 1]}

-----------------------------------------------------------------------------
(* fuseResults *)

NewFusedCandidate ==
    [CandidateID |-> 0, PersonID |-> "", Name |-> "",
     BM25Score |-> 0, VectorScore |-> 0, GraphScore |-> 0,
     FusionScore |-> 0, LLMScore |-> 0, LLMReasoning |-> "", Rank |-> 0]

Put(m, k, v) == [x \in (DOMAIN m) \cup {k} |-> IF x = k THEN v ELSE m[x]]

\* the loop that keeps the largest score seen
SetMax(S) == CHOOSE m \in S : \A x \in S : x <= m

maxBM25Score(results) ==
    IF Len(results) = 0 THEN 1
    ELSE LET max == SetMax({results[i].Rank : i \in 1..Len(results)})
         IN IF max = 0 THEN 1 ELSE max

maxVectorScore(results) ==
    IF Len(results) = 0 THEN 1
    ELSE LET max == SetMax({results[i].Similarity : i \in 1..Len(results)})
         IN IF max = 0 THEN 1 ELSE max

maxGraphScore(results) ==
    IF Len(results) = 0 THEN 1
    ELSE LET max == SetMax({results[i].MatchScore : i \in 1..Len(results)})
         IN IF max = 0 THEN GraphZeroMax ELSE max

\* 1.0 / float64(60+i+1) for the 0-based index i, in 1/Scale
rrfScoreMut(i) == Scale \div (RRFK + i)
rrfScore(i) == Scale \div (RRFK + i + 1)

\* (normalizedScore + rrfScore) / 2.0, in 1/Scale
axisScore(raw, max, i) == ((raw * Scale) \div max + rrfScore(i)) \div 2

candidateKey(id) == "cand_" \o ToString(id)

RECURSIVE fuseBM25(_, _, _, _)
fuseBM25(m, bm25, max, i) ==
    IF i >= Len(bm25) THEN m
    ELSE LET r == bm25[i + 1]
             k == candidateKey(r.CandidateID)
             c == IF k \in DOMAIN m THEN m[k]
                  ELSE [NewFusedCandidate EXCEPT !.CandidateID = r.CandidateID,
                                                 !.Name = r.Name]
         IN fuseBM25(Put(m, k, [c EXCEPT !.BM25Score = axisScore(r.Rank, max, i)]),
                     bm25, max, i + 1)

RECURSIVE fuseVector(_, _, _, _)
fuseVector(m, vector, max, i) ==
    IF i >= Len(vector) THEN m
    ELSE LET r == vector[i + 1]
             k == r.PersonID
             c == IF k \in DOMAIN m THEN m[k]
                  ELSE [NewFusedCandidate EXCEPT !.PersonID = r.PersonID]
         IN fuseVector(Put(m, k, [c EXCEPT !.VectorScore = axisScore(r.Similarity, max, i)]),
                       vector, max, i + 1)

RECURSIVE fuseGraph(_, _, _, _)
fuseGraph(m, graph, max, i) ==
    IF i >= Len(graph) THEN m
    ELSE LET r == graph[i + 1]
             k == r.PersonID
             c == IF k \in DOMAIN m THEN m[k]
                  ELSE [NewFusedCandidate EXCEPT !.PersonID = r.PersonID,
                                                 !.Name = r.Name]
         IN fuseGraph(Put(m, k, [c EXCEPT !.GraphScore = axisScore(r.MatchScore, max, i),
                                          !.Name = r.Name]),
                      graph, max, i + 1)

\* the scoreMap after the three loops, FusionScore filled in
fuseScoreMap(bm25, vector, graph, cfg) ==
    LET m1 == fuseBM25(<<>>, bm25, maxBM25Score(bm25), 0)
        m2 == fuseVector(m1, vector, maxVectorScore(vector), 0)
        m3 == fuseGraph(m2, graph, maxGraphScore(graph), 0)
    IN [k \in DOMAIN m3 |->
           [m3[k] EXCEPT !.FusionScore = cfg.BM25Weight * m3[k].BM25Score
                                         + cfg.VectorWeight * m3[k].VectorScore
                                         + cfg.GraphWeight * m3[k].GraphScore]]

\* sort.Slice's less function of fuseResults
fuseLess(a, b) == a.FusionScore > b.FusionScore

\* The lists fuseResults can return.  The candidates are appended in the
\* iteration order of a Go map (unspecified) and sort.Slice is not stable, so
\* every order in which no later element is "less" than an earlier one is possible.
fuseResults(bm25, vector, graph, cfg) ==
    LET m == fuseScoreMap(bm25, vector, graph, cfg)
        n == Cardinality(DOMAIN m)
        orders == {o \in [1..n -> DOMAIN m] :
                     /\ \A i, j \in 1..n : i # j => o[i] # o[j]
                     /\ \A i, j \in 1..n : i < j => ~fuseLess(m[o[j]], m[o[i]])}
    IN {[i \in 1..n |-> [m[o[i]] EXCEPT !.Rank = i]] : o \in orders}

-----------------------------------------------------------------------------
(* Pure-function specification: fuseResults on every bounded input *)

NoResult == [ok |-> FALSE, list |-> <<>>, err |-> ""]
NoWorld == [bm25 |-> [kind |-> "ok", list |-> <<>>],
            vector |-> [kind |-> "ok", list |-> <<>>],
            graph |-> [kind |-> "ok", list |-> <<>>],
            nodeName |-> [p \in PersonIDs |-> ""],
            enrichFail |-> {},
            queries |-> {}]
Retrievers == {"bm25", "vector", "graph"}

\* nothing is uploaded and the worker waits
NoJob == [JobID |-> 0, CVFileID |-> 0, CVText |-> ""]
NoExtraction == [name |-> "", skills |-> <<>>, companies |-> <<>>]
IdleWorker == [pc |-> "idle", job |-> NoJob, extraction |-> NoExtraction]

IngestIdle ==
    /\ llmService = "set"
    /\ uploads = <<>>
    /\ cvFiles = <<>>
    /\ jobs = <<>>
    /\ trace = <<>>
    /\ cvProcessingQueue = <<>>
    /\ embeddingQueue = <<>>
    /\ embeddingDropped = {}
    /\ worker = IdleWorker
    /\ graphNodes = <<>>
    /\ graphEdges = <<>>

\* no request was made
NoRequest == [Method |-> "", decoded |-> FALSE, Query |-> "", BM25Weight |-> 0,
              VectorWeight |-> 0, GraphWeight |-> 0, FinalTopN |-> 0]
NoResponse == [code |-> 0, body |-> "", candidates |-> <<>>]

HandlerIdle ==
    /\ hybridSearchEngine = "set"
    /\ request = NoRequest
    /\ response = NoResponse

\* no function was called on its own
NoLLMResponse == [kind |-> "none", Candidates |-> <<>>]
NoScoreResponse == [err |-> "", Candidates |-> <<>>]
NoSkills == [list |-> <<>>, threshold |-> 0]
NoMembership == [primary |-> "", communities |-> {}, scores |-> <<>>]
NoCallArgs == [fn |-> ""]
NoCallResult == [fn |-> ""]

PureIdle ==
    /\ llmResponse = NoLLMResponse
    /\ scoreResponse = NoScoreResponse
    /\ skills = NoSkills
    /\ membership = NoMembership
    /\ callArgs = NoCallArgs
    /\ callResult = NoCallResult

CacheIdle ==
    /\ cache = [entries |-> <<>>, ttl |-> 0]
    /\ setLog = <<>>
    /\ lastGet = [found |-> FALSE, scores |-> <<>>, query |-> "", ids |-> <<>>, valid |-> FALSE]

FuseInit ==
    /\ pc = "fuse"
    /\ query = ""
    /\ config \in Configs
    /\ world = NoWorld
    /\ gor = [r \in Retrievers |-> "none"]
    /\ errChan = <<>>
    /\ recvCount = 0
    /\ bm25Results \in BM25Lists
    /\ vectorResults \in VectorLists
    /\ graphResults \in GraphLists
    /\ fusedCandidates = <<>>
    /\ searchResult = NoResult
    /\ scorerCache = <<>>
    /\ calls = <<>>
    /\ CacheIdle
    /\ IngestIdle
    /\ HandlerIdle
    /\ PureIdle
    /\ now = 0

ApplyFuse ==
    /\ pc = "fuse"
    /\ fusedCandidates' \in fuseResults(bm25Results, vectorResults, graphResults, config)
    /\ pc' = "fused"
    /\ UNCHANGED <<query, config, world, gor, errChan, recvCount, bm25Results,
                   vectorResults, graphResults, searchResult, scorerCache, calls>>
    /\ UNCHANGED <<cacheVars, now, ingestVars, httpVars, pureVars>>

FuseNext == ApplyFuse

SpecFuse == FuseInit /\ [][FuseNext]_vars

-----------------------------------------------------------------------------
(* Claims about fuseResults *)

\* C5: fuseResults orders its result by descending FusionScore and breaks ties
\* by ascending person-id, so that the ordering is a function of the inputs.
C5_FusedOrderIsTieBroken ==
    pc = "fused" =>
        \A i, j \in 1..Len(fusedCandidates) :
            i < j =>
                \/ fusedCandidates[i].FusionScore > fusedCandidates[j].FusionScore
                \/ /\ fusedCandidates[i].FusionScore = fusedCandidates[j].FusionScore
                   /\ IdRank(fusedCandidates[i].PersonID) <= IdRank(fusedCandidates[j].PersonID)

\* the raw maximum of a list, and the contribution the fusion formula gives a
\* person at 1-based rank r with raw score s: (s/max_raw + 1/(60+r))/2
RawMax(S) == CHOOSE m \in S : \A x \in S : x <= m
Contribution(s, max, r) ==
    ((IF s = 0 THEN 0 ELSE (s * Scale) \div max) + Scale \div (60 + r)) \div 2

ExpectedBM25(c) ==
    LET hits == {i \in 1..Len(bm25Results) :
                    c.PersonID = "" /\ bm25Results[i].CandidateID = c.CandidateID}
    IN IF hits = {} THEN 0
       ELSE LET r == CHOOSE i \in hits : TRUE
            IN Contribution(bm25Results[r].Rank,
                            RawMax({bm25Results[i].Rank : i \in 1..Len(bm25Results)}), r)

ExpectedVector(c) ==
    LET hits == {i \in 1..Len(vectorResults) : vectorResults[i].PersonID = c.PersonID}
    IN IF hits = {} THEN 0
       ELSE LET r == CHOOSE i \in hits : TRUE
            IN Contribution(vectorResults[r].Similarity,
                            RawMax({vectorResults[i].Similarity : i \in 1..Len(vectorResults)}), r)

ExpectedGraph(c) ==
    LET hits == {i \in 1..Len(graphResults) : graphResults[i].PersonID = c.PersonID}
    IN IF hits = {} THEN 0
       ELSE LET r == CHOOSE i \in hits : TRUE
            IN Contribution(graphResults[r].MatchScore,
                            RawMax({graphResults[i].MatchScore : i \in 1..Len(graphResults)}), r)

\* C6: a person at 1-based rank r with raw score s in a list has the axis score
\* (s/max_raw + 1/(60+r))/2 on that list's axis, a person absent from a list has 0
\* there, and FusionScore is the weighted sum of the three axis scores; every
\* list entry has its fused candidate.
C6_FusionFormula ==
    pc = "fused" =>
        /\ \A k \in 1..Len(fusedCandidates) :
              LET c == fusedCandidates[k] IN
              /\ c.BM25Score = ExpectedBM25(c)
              /\ c.VectorScore = ExpectedVector(c)
              /\ c.GraphScore = ExpectedGraph(c)
              /\ c.FusionScore = config.BM25Weight * ExpectedBM25(c)
                                 + config.VectorWeight * ExpectedVector(c)
                                 + config.GraphWeight * ExpectedGraph(c)
        /\ \A i \in 1..Len(bm25Results) : \E k \in 1..Len(fusedCandidates) :
              /\ fusedCandidates[k].PersonID = ""
              /\ fusedCandidates[k].CandidateID = bm25Results[i].CandidateID
        /\ \A i \in 1..Len(vectorResults) : \E k \in 1..Len(fusedCandidates) :
              fusedCandidates[k].PersonID = vectorResults[i].PersonID
        /\ \A i \in 1..Len(graphResults) : \E k \in 1..Len(fusedCandidates) :
              fusedCandidates[k].PersonID = graphResults[i].PersonID

\* a person below the top of the vector list and present in the graph list too,
\* fused with a second person that the graph list lacks
C6_Witness ==
    /\ pc = "fused"
    /\ Len(vectorResults) = 2 /\ Len(graphResults) = 1 /\ Len(bm25Results) = 1
    /\ vectorResults[1].Similarity = 1 /\ vectorResults[2].Similarity = 2
    /\ graphResults[1].PersonID = vectorResults[1].PersonID
    /\ graphResults[1].MatchScore = 0
    /\ \E k \in 1..Len(fusedCandidates) :
          /\ fusedCandidates[k].PersonID = vectorResults[2].PersonID
          /\ fusedCandidates[k].GraphScore = 0
          /\ fusedCandidates[k].VectorScore > 0

-----------------------------------------------------------------------------
(* LLMCache *)

CacheTTL == 5     \* minutes: the TTL NewLLMScorer gives its cache
TestTTL == 1      \* the TTL of the cache exercised on its own
MaxTime == 2      \* the clock stops here
MaxIDs == 2       \* longest candidate-id list given to the cache
MaxSets == 2      \* distinct (query, ids) pairs stored between two Clears

Queries == {"go", "go|person_1"}
IDLists == SeqsUpTo(PersonIDs, MaxIDs)

CandidateScore(id, score, why) == [PersonID |-> id, Score |-> score * Unit, Reasoning |-> why]
TestScores == {<<CandidateScore("person_1", 50, "fits")>>,
               <<CandidateScore("person_1", 0, "does not fit")>>}

NewLLMCache(ttl) == [entries |-> <<>>, ttl |-> ttl]

RECURSIVE insertSorted(_, _)
insertSorted(x, s) ==
    IF s = <<>> THEN <<x>>
    ELSE IF IdRank(x) <= IdRank(Head(s)) THEN <<x>> \o s
    ELSE <<Head(s)>> \o insertSorted(x, Tail(s))

\* sort.Strings on a copy
RECURSIVE sortStrings(_)
sortStrings(ids) ==
    IF ids = <<>> THEN <<>> ELSE insertSorted(Head(ids), sortStrings(Tail(ids)))

RECURSIVE joinIDs(_, _)
joinIDs(data, sorted) ==
    IF sorted = <<>> THEN data ELSE joinIDs(data \o "|" \o Head(sorted), Tail(sorted))

\* md5 and the hex encoding are taken to be injective; the key is the hashed string itself
generateKey(q, candidateIDs) == joinIDs(q, sortStrings(candidateIDs))

Miss == [found |-> FALSE, scores |-> <<>>]

Get(c, q, candidateIDs, t) ==
    LET key == generateKey(q, candidateIDs)
    IN IF key \notin DOMAIN c.entries THEN Miss
       ELSE IF t - c.entries[key].Timestamp > c.ttl THEN Miss
       ELSE [found |-> TRUE, scores |-> c.entries[key].Scores]

Set(c, q, candidateIDs, scores, t) ==
    [c EXCEPT !.entries = Put(c.entries, generateKey(q, candidateIDs),
                              [Scores |-> scores, Timestamp |-> t])]

Clear(c) == [c EXCEPT !.entries = <<>>]

CleanExpired(c, t) ==
    [c EXCEPT !.entries =
        [k \in {x \in DOMAIN c.entries : ~(t - c.entries[x].Timestamp > c.ttl)} |->
            c.entries[k]]]

NoGet == [found |-> FALSE, scores |-> <<>>, query |-> "", ids |-> <<>>, valid |-> FALSE]

SearchIdle ==
    /\ pc = "off"
    /\ query = ""
    /\ config = DefaultHybridConfig
    /\ world = NoWorld
    /\ gor = [r \in Retrievers |-> "none"]
    /\ errChan = <<>>
    /\ recvCount = 0
    /\ bm25Results = <<>>
    /\ vectorResults = <<>>
    /\ graphResults = <<>>
    /\ fusedCandidates = <<>>
    /\ searchResult = NoResult
    /\ scorerCache = <<>>
    /\ calls = <<>>

CacheInit ==
    /\ SearchIdle
    /\ cache = NewLLMCache(TestTTL)
    /\ setLog = <<>>
    /\ lastGet = NoGet
    /\ IngestIdle
    /\ HandlerIdle
    /\ PureIdle
    /\ now = 0

CacheSet(q, ids, scores) ==
    /\ Cardinality(DOMAIN setLog \cup {<<q, ids>>}) <= MaxSets
    /\ cache' = Set(cache, q, ids, scores, now)
    /\ setLog' = Put(setLog, <<q, ids>>, [at |-> now, scores |-> scores])
    /\ lastGet' = NoGet
    /\ UNCHANGED <<httpVars, pureVars, ingestVars, searchVars, now>>

CacheGet(q, ids) ==
    /\ lastGet' = [found |-> Get(cache, q, ids, now).found,
                   scores |-> Get(cache, q, ids, now).scores,
                   query |-> q, ids |-> ids, valid |-> TRUE]
    /\ UNCHANGED <<httpVars, pureVars, ingestVars, searchVars, cache, setLog, now>>

CacheClear ==
    /\ cache' = Clear(cache)
    /\ setLog' = <<>>
    /\ lastGet' = NoGet
    /\ UNCHANGED <<httpVars, pureVars, ingestVars, searchVars, now>>

CacheCleanExpired ==
    /\ cache' = CleanExpired(cache, now)
    /\ lastGet' = NoGet
    /\ UNCHANGED <<httpVars, pureVars, ingestVars, searchVars, setLog, now>>

CacheTick ==
    /\ now < MaxTime
    /\ now' = now + 1
    /\ lastGet' = NoGet
    /\ UNCHANGED <<httpVars, pureVars, ingestVars, searchVars, cache, setLog>>

CacheNext ==
    \/ \E q \in Queries, ids \in IDLists, sc \in TestScores : CacheSet(q, ids, sc)
    \/ \E q \in Queries, ids \in IDLists : CacheGet(q, ids)
    \/ CacheClear
    \/ CacheCleanExpired
    \/ CacheTick

SpecCache == CacheInit /\ [][CacheNext]_vars

\* the two id lists hold the same ids, in any order
SameIds(a, b) ==
    \A x \in PersonIDs \cup {""} :
        Cardinality({i \in 1..Len(a) : a[i] = x}) = Cardinality({i \in 1..Len(b) : b[i] = x})

FreshSets(q, ids) ==
    {k \in DOMAIN setLog : /\ k[1] = q
                           /\ SameIds(k[2], ids)
                           /\ now - setLog[k].at <= cache.ttl}

\* C7: Get(q, ids) is a hit exactly when a Set with the same query and the same
\* candidate ids (in any order) was performed no longer than the TTL ago and the
\* cache was not cleared since, and a hit returns scores stored by such a Set.
C7_GetHitIffFreshSameSet ==
    lastGet.valid =>
        /\ lastGet.found <=> FreshSets(lastGet.query, lastGet.ids) # {}
        /\ lastGet.found =>
              \E k \in FreshSets(lastGet.query, lastGet.ids) :
                  lastGet.scores = setLog[k].scores

-----------------------------------------------------------------------------
(* LLMScorer *)

MaxLLM == 2       \* most entries in an LLM scoring response
MaxCalls == 2     \* Search calls in a row

NewLLMScorer == [cache |-> NewLLMCache(CacheTTL)]

\* what llm.Generate and parseScoreResponse make of one scoring request:
\* a transport error, a response that does not parse, or the parsed scores
LLMEntries == {CandidateScore(id, sc, "why") : id \in PersonIDs \cup {"person_9"}, sc \in {0, 50}}
LLMReplies ==
    {[kind |-> "error", scores |-> <<>>], [kind |-> "garbled", scores |-> <<>>]}
    \cup {[kind |-> "ok", scores |-> l] : l \in SeqsUpTo(LLMEntries, MaxLLM)}

\* ScoreCandidates on the cache c at time t: the error, the scores, whether the
\* LLM was invoked, and the cache afterwards
ScoreCandidates(c, q, candidates, llm, t) ==
    IF Len(candidates) = 0
    THEN [err |-> FALSE, scores |-> <<>>, called |-> FALSE, hit |-> FALSE, cache |-> c]
    ELSE LET candidateIDs == [i \in 1..Len(candidates) |-> candidates[i].PersonID]
             cached == Get(c, q, candidateIDs, t)
         IN IF cached.found
            THEN [err |-> FALSE, scores |-> cached.scores, called |-> FALSE, hit |-> TRUE,
                  cache |-> c]
            ELSE IF llm.kind # "ok"
            THEN [err |-> TRUE, scores |-> <<>>, called |-> TRUE, hit |-> FALSE, cache |-> c]
            ELSE [err |-> FALSE, scores |-> llm.scores, called |-> TRUE, hit |-> FALSE,
                  cache |-> Set(c, q, candidateIDs, llm.scores, t)]

-----------------------------------------------------------------------------
(* HybridSearchEngine.Search *)

\* the lists the stores answer with in the Search specifications
SearchBM25 == {l \in BM25Lists : Len(l) <= 1 /\ \A i \in 1..Len(l) :
                                     l[i].Rank = MaxRaw /\ l[i].CandidateID = 1}
SearchVector == {l \in VectorLists : \A i \in 1..Len(l) : l[i].Similarity = MaxRaw}
SearchGraph == {l \in GraphLists : \A i \in 1..Len(l) : l[i].MatchScore = MaxRaw}

Outcomes(lists) ==
    {[kind |-> "ok", list |-> l] : l \in lists} \cup {[kind |-> "err", list |-> <<>>]}
\* AnalyzeQuery failed: the graph goroutine sends an empty list
Skipped == [kind |-> "skip", list |-> <<>>]

NodeNames == {[p \in PersonIDs |-> IF p \in S THEN PersonName(p) ELSE ""] : S \in SUBSET PersonIDs}

SearchWorlds ==
    {w \in [bm25 : Outcomes(SearchBM25), vector : Outcomes(SearchVector),
            graph : Outcomes(SearchGraph) \cup {Skipped},
            nodeName : NodeNames, enrichFail : {{}, {"person_1"}}, queries : {{"go"}}] :
        \A i \in 1..Len(w.graph.list) :
            w.graph.list[i].Name = w.nodeName[w.graph.list[i].PersonID]}

\* the person lookup of enrichCandidates: the name of the node, unless the
\* candidate has no PersonID or the query fails
enrichCandidates(candidates, w) ==
    [i \in 1..Len(candidates) |->
        IF candidates[i].PersonID = "" \/ candidates[i].PersonID \in w.enrichFail
        THEN candidates[i]
        ELSE [candidates[i] EXCEPT !.Name = w.nodeName[candidates[i].PersonID]]]

\* fusedCandidates[:FinalTopN]
topN(candidates, cfg) ==
    IF cfg.FinalTopN > 0 /\ Len(candidates) > cfg.FinalTopN
    THEN SubSeq(candidates, 1, cfg.FinalTopN)
    ELSE candidates

\* the fallback of Search when ScoreCandidates fails
fallbackScoresMut(candidates) == candidates
fallbackScores(candidates) ==
    [i \in 1..Len(candidates) |->
        [candidates[i] EXCEPT !.LLMScore = candidates[i].FusionScore]]

\* scoreMap[score.PersonID] = score, the last entry of an id winning
lastScoreOf(llmScores, id) ==
    LET hits == {i \in 1..Len(llmScores) : llmScores[i].PersonID = id}
    IN IF hits = {} THEN 0 ELSE CHOOSE i \in hits : \A j \in hits : j <= i

\* a merge that leaves a candidate without score as it is
mergeScoresMut(candidates, llmScores) ==
    [i \in 1..Len(candidates) |->
        LET k == lastScoreOf(llmScores, candidates[i].PersonID)
        IN IF k # 0
           THEN [candidates[i] EXCEPT !.LLMScore = llmScores[k].Score,
                                      !.LLMReasoning = llmScores[k].Reasoning]
           ELSE candidates[i]]

mergeScores(candidates, llmScores) ==
    [i \in 1..Len(candidates) |->
        LET k == lastScoreOf(llmScores, candidates[i].PersonID)
        IN IF k # 0
           THEN [candidates[i] EXCEPT !.LLMScore = llmScores[k].Score,
                                      !.LLMReasoning = llmScores[k].Reasoning]
           ELSE [candidates[i] EXCEPT !.LLMScore = candidates[i].FusionScore]]

llmLess(a, b) == a.LLMScore > b.LLMScore

\* what sort.Slice may leave: it is not stable
SortOrders(list) ==
    LET n == Len(list)
        perms == {o \in [1..n -> 1..n] :
                    /\ \A i, j \in 1..n : i # j => o[i] # o[j]
                    /\ \A i, j \in 1..n : i < j => ~llmLess(list[o[j]], list[o[i]])}
    IN {[i \in 1..n |-> list[o[i]]] : o \in perms}

RECURSIVE validCandidates(_)
validCandidates(list) ==
    IF list = <<>> THEN <<>>
    ELSE IF Head(list).Name # "" /\ Head(list).PersonID # ""
         THEN <<Head(list)>> \o validCandidates(Tail(list))
         ELSE validCandidates(Tail(list))

updateRanks(list) == [i \in 1..Len(list) |-> [list[i] EXCEPT !.Rank = i]]

\* steps 5 and 6 of Search: merge, sort, filter, rank
finalRanking(candidates, llmScores) ==
    {updateRanks(validCandidates(sorted)) :
        sorted \in SortOrders(mergeScores(candidates, llmScores))}

SearchInit ==
    /\ pc = "idle"
    /\ query = ""
    /\ config \in Configs
    /\ world \in SearchWorlds
    /\ gor = [r \in Retrievers |-> "none"]
    /\ errChan = <<>>
    /\ recvCount = 0
    /\ bm25Results = <<>>
    /\ vectorResults = <<>>
    /\ graphResults = <<>>
    /\ fusedCandidates = <<>>
    /\ searchResult = NoResult
    /\ scorerCache = <<>>
    /\ calls = <<>>
    /\ CacheIdle
    /\ IngestIdle
    /\ HandlerIdle
    /\ PureIdle
    /\ now = 0

\* Search is called: the channels are made and the three goroutines started
SearchStart(q) ==
    /\ pc = "idle"
    /\ query' = q
    /\ gor' = [r \in Retrievers |-> "running"]
    /\ errChan' = <<>>
    /\ recvCount' = 0
    /\ bm25Results' = <<>>
    /\ vectorResults' = <<>>
    /\ graphResults' = <<>>
    /\ fusedCandidates' = <<>>
    /\ searchResult' = NoResult
    /\ pc' = "wait"
    /\ UNCHANGED <<config, world, scorerCache, calls, cacheVars, now, ingestVars, httpVars, pureVars>>

\* a retriever goroutine gets its answer: an error goes to errChan (buffered,
\* the goroutine ends), a list is offered on the goroutine's result channel
Retrieve(r) ==
    /\ gor[r] = "running"
    /\ IF world[r].kind = "err"
       THEN /\ errChan' = Append(errChan, r \o " failed")
            /\ gor' = [gor EXCEPT ![r] = "done"]
       ELSE /\ gor' = [gor EXCEPT ![r] = "sending"]
            /\ UNCHANGED errChan
    /\ UNCHANGED <<pc, query, config, world, recvCount, bm25Results, vectorResults,
                   graphResults, fusedCandidates, searchResult, scorerCache, calls,
                   cacheVars, now, ingestVars, httpVars, pureVars>>

\* a wait that ends after two of the three results
allReceivedMut(i) == i >= 2

\* for i := 0; i < 3; i++: the loop ends after three receives
allReceived(i) == i >= 3

\* one case of the select: a result list is received
Receive(r) ==
    /\ pc = "wait"
    /\ gor[r] = "sending"
    /\ gor' = [gor EXCEPT ![r] = "done"]
    /\ bm25Results' = IF r = "bm25" THEN world.bm25.list ELSE bm25Results
    /\ vectorResults' = IF r = "vector" THEN world.vector.list ELSE vectorResults
    /\ graphResults' = IF r = "graph" THEN world.graph.list ELSE graphResults
    /\ recvCount' = recvCount + 1
    /\ pc' = IF allReceived(recvCount + 1) THEN "fuse" ELSE "wait"
    /\ UNCHANGED <<query, config, world, errChan, fusedCandidates, searchResult,
                   scorerCache, calls, cacheVars, now, ingestVars, httpVars, pureVars>>

NoCall == [query |-> "", ids |-> <<>>, sent |-> FALSE, called |-> FALSE, hit |-> FALSE,
           err |-> FALSE, scores |-> <<>>, at |-> 0]

\* the errChan case of the select: return nil, err
ReceiveErr ==
    /\ pc = "wait"
    /\ errChan # <<>>
    /\ searchResult' = [ok |-> FALSE, list |-> <<>>, err |-> Head(errChan)]
    /\ errChan' = Tail(errChan)
    /\ calls' = Append(calls, [NoCall EXCEPT !.query = query, !.at = now])
    /\ pc' = "done"
    /\ UNCHANGED <<query, config, world, gor, recvCount, bm25Results, vectorResults,
                   graphResults, fusedCandidates, scorerCache, cacheVars, now, ingestVars, httpVars, pureVars>>

\* steps 2, 2.5 and 3: fuse, enrich, cut to FinalTopN
SearchFuse ==
    /\ pc = "fuse"
    /\ \E fused \in fuseResults(bm25Results, vectorResults, graphResults, config) :
          fusedCandidates' = topN(enrichCandidates(fused, world), config)
    /\ pc' = "score"
    /\ UNCHANGED <<query, config, world, gor, errChan, recvCount, bm25Results,
                   vectorResults, graphResults, searchResult, scorerCache, calls,
                   cacheVars, now, ingestVars, httpVars, pureVars>>

\* steps 4 to 6: a new scorer scores the candidates, the scores are merged
SearchScore(llm) ==
    /\ pc = "score"
    /\ LET scorer == NewLLMScorer
           r == ScoreCandidates(scorer.cache, query, fusedCandidates, llm, now)
       IN /\ scorerCache' = r.cache
          /\ calls' = Append(calls,
                [query |-> query,
                 ids |-> [i \in 1..Len(fusedCandidates) |-> fusedCandidates[i].PersonID],
                 sent |-> Len(fusedCandidates) > 0, called |-> r.called, hit |-> r.hit,
                 err |-> r.err, scores |-> r.scores, at |-> now])
          /\ IF r.err
             THEN searchResult' = [ok |-> TRUE, list |-> fallbackScores(fusedCandidates),
                                   err |-> ""]
             ELSE \E l \in finalRanking(fusedCandidates, r.scores) :
                     searchResult' = [ok |-> TRUE, list |-> l, err |-> ""]
    /\ pc' = "done"
    /\ UNCHANGED <<query, config, world, gor, errChan, recvCount, bm25Results,
                   vectorResults, graphResults, fusedCandidates, cacheVars, now, ingestVars, httpVars, pureVars>>

SearchNext ==
    \/ \E q \in world.queries : SearchStart(q)
    \/ \E r \in Retrievers : Retrieve(r)
    \/ \E r \in Retrievers : Receive(r)
    \/ ReceiveErr
    \/ SearchFuse
    \/ \E llm \in LLMReplies : SearchScore(llm)

SpecSearch == SearchInit /\ [][SearchNext]_vars

\* the next Search call of the same engine
SearchAgain ==
    /\ pc = "done"
    /\ Len(calls) < MaxCalls
    /\ pc' = "idle"
    /\ gor' = [r \in Retrievers |-> "none"]
    /\ UNCHANGED <<query, config, world, errChan, recvCount, bm25Results, vectorResults,
                   graphResults, fusedCandidates, searchResult, scorerCache, calls,
                   cacheVars, now, ingestVars, httpVars, pureVars>>

\* a store that answers every call alike, and two queries
RepeatWorlds ==
    {w \in [bm25 : {[kind |-> "ok", list |-> <<>>]},
            vector : {o \in Outcomes(SearchVector) : o.kind = "ok"},
            graph : {Skipped},
            nodeName : {[p \in PersonIDs |-> PersonName(p)]},
            enrichFail : {{}}, queries : {Queries}] : TRUE}

RepeatInit ==
    /\ pc = "idle"
    /\ query = ""
    /\ config = DefaultHybridConfig
    /\ world \in RepeatWorlds
    /\ gor = [r \in Retrievers |-> "none"]
    /\ errChan = <<>>
    /\ recvCount = 0
    /\ bm25Results = <<>>
    /\ vectorResults = <<>>
    /\ graphResults = <<>>
    /\ fusedCandidates = <<>>
    /\ searchResult = NoResult
    /\ scorerCache = <<>>
    /\ calls = <<>>
    /\ CacheIdle
    /\ IngestIdle
    /\ HandlerIdle
    /\ PureIdle
    /\ now = 0

\* time passes between two calls
RepeatTick ==
    /\ pc = "idle"
    /\ now < MaxTime
    /\ now' = now + 1
    /\ UNCHANGED <<httpVars, pureVars, ingestVars, searchVars, cacheVars>>

RepeatNext ==
    \/ \E q \in world.queries : SearchStart(q)
    \/ \E r \in Retrievers : Retrieve(r)
    \/ \E r \in Retrievers : Receive(r)
    \/ SearchFuse
    \/ \E llm \in LLMReplies : SearchScore(llm)
    \/ SearchAgain
    \/ RepeatTick

SpecRepeat == RepeatInit /\ [][RepeatNext]_vars

-----------------------------------------------------------------------------
(* parseScoreResponse *)

MaxParse == 1     \* most candidates in a response given to parseScoreResponse

\* what the LLM may write in the fields of a candidate; Confidence in tenths
ParseScores == {-5, 0, 39, 40, 59, 60, 74, 75, 100, 101}
ParseConfidences == {-1, 0, 5, 10, 11}
ParseFits == {"", "excellent", "good", "fair", "poor", "great"}

\* CandidateScore as json.Unmarshal fills it
RawCandidateScore ==
    [PersonID : {"person_1"}, Score : ParseScores, Confidence : ParseConfidences,
     Fit : ParseFits]

\* an LLM response: text without a JSON object, an object that does not unmarshal,
\* or an object with candidates
LLMResponses ==
    {[kind |-> "text", Candidates |-> <<>>], [kind |-> "invalid", Candidates |-> <<>>]}
    \cup {[kind |-> "json", Candidates |-> l] : l \in SeqsUpTo(RawCandidateScore, MaxParse)}

clampScore(x) == IF x < 0 THEN 0 ELSE IF x > 100 THEN 100 ELSE x
clampConfidence(x) == IF x < 0 THEN 0 ELSE IF x > 10 THEN 10 ELSE x

\* the default fit of a score
defaultFit(score) ==
    IF score >= 75 THEN "excellent"
    ELSE IF score >= 60 THEN "good"
    ELSE IF score >= 40 THEN "fair"
    ELSE "poor"

\* the body of the validation loop
validateCandidate(c) ==
    LET score == clampScore(c.Score)
    IN [c EXCEPT !.Score = score,
                 !.Confidence = clampConfidence(c.Confidence),
                 !.Fit = IF c.Fit = "" THEN defaultFit(score) ELSE c.Fit]

parseScoreResponse(resp) ==
    IF resp.kind = "text"
    THEN [err |-> "no valid JSON found in LLM response", Candidates |-> <<>>]
    ELSE IF resp.kind = "invalid"
    THEN [err |-> "json parse error", Candidates |-> <<>>]
    ELSE [err |-> "",
          Candidates |-> [i \in 1..Len(resp.Candidates) |->
                             validateCandidate(resp.Candidates[i])]]

ParseInit ==
    /\ SearchIdle
    /\ CacheIdle
    /\ IngestIdle
    /\ HandlerIdle
    /\ PureIdle
    /\ now = 0

ParseCall(resp) ==
    /\ llmResponse = NoLLMResponse
    /\ llmResponse' = resp
    /\ scoreResponse' = parseScoreResponse(resp)
    /\ UNCHANGED <<searchVars, cacheVars, now, ingestVars, httpVars, skills, membership,
                   callArgs, callResult>>

ParseNext == \E resp \in LLMResponses : ParseCall(resp)

SpecParse == ParseInit /\ [][ParseNext]_vars

\* C15: every candidate of a response that parseScoreResponse accepts has a Score
\* in [0, 100], a Confidence in [0, 1] and a Fit among excellent, good, fair, poor.
C15_ParsedScoresInRange ==
    (llmResponse.kind = "json" /\ scoreResponse.err = "") =>
        \A i \in 1..Len(scoreResponse.Candidates) :
            /\ scoreResponse.Candidates[i].Score \in 0..100
            /\ scoreResponse.Candidates[i].Confidence \in 0..10
            /\ scoreResponse.Candidates[i].Fit \in {"excellent", "good", "fair", "poor"}

-----------------------------------------------------------------------------
(* FindCommunities *)

MaxSkills == 3    \* longest skill list given to FindCommunities

\* the KeySkills of every community
DefaultCommunities ==
    "backend" :> <<"Java", "Python", "Go", "Node.js", "PHP", "Ruby", "C#", ".NET", "Spring",
                   "Django", "FastAPI", "Express">>
    @@ "frontend" :> <<"React", "Vue", "Angular", "JavaScript", "TypeScript", "HTML", "CSS",
                       "Next.js", "Svelte">>
    @@ "mobile" :> <<"Swift", "Kotlin", "Flutter", "React Native", "iOS", "Android",
                     "Xamarin">>
    @@ "devops" :> <<"Docker", "Kubernetes", "AWS", "Azure", "GCP", "Jenkins", "Terraform",
                     "Ansible", "CI/CD">>
    @@ "data" :> <<"SQL", "PostgreSQL", "MySQL", "MongoDB", "Redis", "Cassandra", "Spark",
                   "Kafka", "Elasticsearch">>
    @@ "ml-ai" :> <<"TensorFlow", "PyTorch", "Scikit-learn", "Machine Learning",
                    "Deep Learning", "AI", "NLP", "Computer Vision">>
    @@ "qa-test" :> <<"QA", "Testing", "Test Automation", "Selenium", "JUnit", "Jest",
                      "Cypress", "Postman", "Quality Assurance", "Manual Testing",
                      "Test Cases">>
    @@ "analyst" :> <<"Business Analysis", "Data Analysis", "Analytics", "Tableau",
                      "Power BI", "Excel", "Requirements Analysis", "Requirement Analysis",
                      "BA", "Product Analysis", "Stakeholder", "Agile", "Jira">>

\* strings.ToLower on ASCII
UpperLetters == "ABCDEFGHIJKLMNOPQRSTUVWXYZ"
LowerLetters == "abcdefghijklmnopqrstuvwxyz"
lowerChar(c) ==
    IF \E i \in 1..Len(UpperLetters) : SubSeq(UpperLetters, i, i) = c
    THEN LET i == CHOOSE k \in 1..Len(UpperLetters) : SubSeq(UpperLetters, k, k) = c
         IN SubSeq(LowerLetters, i, i)
    ELSE c

RECURSIVE ToLower(_)
ToLower(str) ==
    IF Len(str) = 0 THEN ""
    ELSE lowerChar(SubSeq(str, 1, 1)) \o ToLower(SubSeq(str, 2, Len(str)))

\* strings.Contains
Contains(str, substr) ==
    \E i \in 0..(Len(str) - Len(substr)) : SubSeq(str, i + 1, i + Len(substr)) = substr

\* strings.ToLower(keySkill), once for the table
LowerKeySkills ==
    [c \in DOMAIN DefaultCommunities |->
        [i \in 1..Len(DefaultCommunities[c]) |-> ToLower(DefaultCommunities[c][i])]]

\* a match in one direction only
matchesCommunityMut(skillLower, c) ==
    \E i \in 1..Len(LowerKeySkills[c]) : Contains(skillLower, LowerKeySkills[c][i])

\* the inner loop: some key skill of the community holds the skill or is held by it
matchesCommunity(skillLower, c) ==
    \E i \in 1..Len(LowerKeySkills[c]) :
        \/ Contains(skillLower, LowerKeySkills[c][i])
        \/ Contains(LowerKeySkills[c][i], skillLower)

\* rawScores[communityID]++ for every community the skill matches
countSkill(rawScores, name) ==
    LET skillLower == ToLower(name)
        hit == {c \in DOMAIN DefaultCommunities : matchesCommunity(skillLower, c)}
    IN [c \in (DOMAIN rawScores) \cup hit |->
           (IF c \in DOMAIN rawScores THEN rawScores[c] ELSE 0) + (IF c \in hit THEN 1 ELSE 0)]

\* the loop over the skills, in list order
RECURSIVE countSkills(_, _)
countSkills(rawScores, list) ==
    IF list = <<>> THEN rawScores
    ELSE countSkills(countSkill(rawScores, Head(list)), Tail(list))

\* float64(score) / float64(maxScore), in 1/NormScale
NormScale == LCMSet(1..MaxSkills)
normalizedScoreMut(score, maxScore) == (score * NormScale) \div (maxScore + 1)
normalizedScore(score, maxScore) == (score * NormScale) \div maxScore

General == [primary |-> "general", communities |-> {"general"},
            scores |-> [c \in {"general"} |-> NormScale]]

\* What FindCommunities can return; the threshold is in tenths.  primary is the
\* community with the highest score that the map iteration visits last, and the
\* communities slice is appended in map iteration order: its elements are kept as a
\* set.
FindCommunities(list, threshold) ==
    LET rawScores == countSkills(<<>>, list)
        maxScore == IF DOMAIN rawScores = {} THEN 0
                    ELSE SetMax({rawScores[c] : c \in DOMAIN rawScores})
    IN IF maxScore = 0 THEN {General}
       ELSE {[primary |-> p,
              communities |-> {c \in DOMAIN rawScores :
                                 10 * rawScores[c] >= threshold * maxScore},
              scores |-> [c \in DOMAIN rawScores |-> normalizedScore(rawScores[c], maxScore)]] :
             p \in {c \in DOMAIN rawScores : rawScores[c] = maxScore}}

SkillNames == {"Go", "JavaScript", "Docker", "Cobol"}
Thresholds == {0, 3, 10}

CommunityInit ==
    /\ SearchIdle
    /\ CacheIdle
    /\ IngestIdle
    /\ HandlerIdle
    /\ PureIdle
    /\ now = 0

FindCommunitiesCall(list, threshold) ==
    /\ membership = NoMembership
    /\ skills' = [list |-> list, threshold |-> threshold]
    /\ membership' \in FindCommunities(list, threshold)
    /\ UNCHANGED <<searchVars, cacheVars, now, ingestVars, httpVars, llmResponse,
                   scoreResponse, callArgs, callResult>>

CommunityNext ==
    \E list \in SeqsUpTo(SkillNames, MaxSkills), threshold \in Thresholds :
        FindCommunitiesCall(list, threshold)

SpecCommunity == CommunityInit /\ [][CommunityNext]_vars

\* the lists that hold the skills of list in another order
Reorderings(list) ==
    LET n == Len(list)
    IN {[i \in 1..n |-> list[o[i]]] :
           o \in {f \in [1..n -> 1..n] : \A i, j \in 1..n : i # j => f[i] # f[j]}}

RECURSIVE SumScores(_, _)
SumScores(scores, S) ==
    IF S = {} THEN 0
    ELSE LET c == CHOOSE x \in S : TRUE
         IN scores[c] + SumScores(scores, S \ {c})

\* C16: whatever the order of the skill list, and however often it is called,
\* FindCommunities returns the same normalised scores and the same set of
\* communities, and the normalised scores sum to at least 1.
C16_CommunitiesOrderIndependent ==
    membership # NoMembership =>
        /\ \A list \in Reorderings(skills.list) :
              \A r \in FindCommunities(list, skills.threshold) :
                  /\ r.scores = membership.scores
                  /\ r.communities = membership.communities
        /\ SumScores(membership.scores, DOMAIN membership.scores) >= NormScale

\* three different skills with different matches: two communities at least, one of
\* them below the highest score
C16_Witness ==
    /\ membership # NoMembership
    /\ Len(skills.list) = 3
    /\ skills.list[1] # skills.list[2] /\ skills.list[2] # skills.list[3]
    /\ \E c, d \in DOMAIN membership.scores :
          membership.scores[c] = NormScale /\ membership.scores[d] < NormScale
    /\ membership.communities # DOMAIN membership.scores

\* the skill matches a key skill of the community: one holds the other, whatever
\* the case
MatchesKeySkill(name, c) ==
    \E i \in DOMAIN DefaultCommunities[c] :
        LET k == ToLower(DefaultCommunities[c][i])
            n == ToLower(name)
        IN Contains(n, k) \/ Contains(k, n)

\* for every community, the number of distinct skills of the list that match it
DistinctRaw(list) ==
    [c \in DOMAIN DefaultCommunities |->
        Cardinality({n \in {list[i] : i \in DOMAIN list} : MatchesKeySkill(n, c)})]

\* for every community, the number of entries of the list that match it
EntryRaw(list) ==
    [c \in DOMAIN DefaultCommunities |->
        Cardinality({i \in DOMAIN list : MatchesKeySkill(list[i], c)})]

\* the normalised scores that go with raw scores
ScoresOfRaw(raw) ==
    LET matched == {c \in DOMAIN raw : raw[c] > 0}
    IN IF matched = {} THEN General.scores
       ELSE LET max == SetMax({raw[c] : c \in matched})
            IN [c \in matched |-> (raw[c] * NormScale) \div max]

\* C25 as first stated: the raw score of a community is the number of distinct
\* input skills that match one of its key skills, so that giving a skill more than
\* once changes no raw or normalised score.
C25_DistinctSkillsCounted ==
    membership # NoMembership => membership.scores = ScoresOfRaw(DistinctRaw(skills.list))

\* C25: the raw score of a community is the number of entries of the input list
\* that match one of its key skills (case-insensitive substring containment in
\* either direction), a skill given twice counting twice; the normalised score is
\* the raw score over the highest raw score.
C25_SkillEntriesCounted ==
    membership # NoMembership => membership.scores = ScoresOfRaw(EntryRaw(skills.list))

\* a skill was given twice and the scores are not those of the distinct skills
C25_Witness ==
    /\ membership # NoMembership
    /\ \E i, j \in DOMAIN skills.list : i # j /\ skills.list[i] = skills.list[j]
    /\ membership.scores # ScoresOfRaw(DistinctRaw(skills.list))

-----------------------------------------------------------------------------
(* HybridSearchHandler *)

\* weights in tenths, as a request may carry them: absent (0), negative, the
\* defaults, and larger ones
ReqWeights == {-1, 0, 3, 4, 6, 10}

\* HybridSearchRequest as decoded from the body; decoded is FALSE for a body that
\* is not JSON
Requests ==
    [Method : {"POST", "GET"}, decoded : BOOLEAN, Query : {""} \cup Queries,
     BM25Weight : ReqWeights, VectorWeight : ReqWeights, GraphWeight : ReqWeights,
     FinalTopN : {0, 1}]

\* config := DefaultHybridConfig(), then every field of the request that is > 0
buildConfig(req) ==
    [BM25Weight |-> IF req.BM25Weight > 0 THEN req.BM25Weight
                    ELSE DefaultHybridConfig.BM25Weight,
     VectorWeight |-> IF req.VectorWeight > 0 THEN req.VectorWeight
                      ELSE DefaultHybridConfig.VectorWeight,
     GraphWeight |-> IF req.GraphWeight > 0 THEN req.GraphWeight
                     ELSE DefaultHybridConfig.GraphWeight,
     FinalTopN |-> IF req.FinalTopN > 0 THEN req.FinalTopN ELSE DefaultHybridConfig.FinalTopN]

totalWeight(cfg) == cfg.BM25Weight + cfg.VectorWeight + cfg.GraphWeight

\* a validation that takes the request's weights as they are
weightsRejectedMut(cfg, roundedOut) == FALSE

\* totalWeight < 0.9 || totalWeight > 1.1 on float64: a sum that is exactly 0.9 or
\* 1.1 may be rounded to either side (0.3+0.3+0.3 is below 0.9)
weightsRejected(cfg, roundedOut) ==
    \/ totalWeight(cfg) < 9
    \/ totalWeight(cfg) > 11
    \/ totalWeight(cfg) \in {9, 11} /\ roundedOut

HandlerWorlds ==
    {w \in [bm25 : {[kind |-> "ok", list |-> <<>>], [kind |-> "err", list |-> <<>>]},
            vector : {o \in Outcomes(SearchVector) :
                         /\ o.kind = "ok" /\ Len(o.list) >= 1
                         /\ o.list[1].PersonID = "person_1"},
            graph : {Skipped},
            nodeName : {[p \in PersonIDs |-> PersonName(p)]},
            enrichFail : {{}}, queries : {Queries}] : TRUE}

HandlerReplies == {llm \in LLMReplies : Len(llm.scores) <= 1}

HandlerInit ==
    /\ pc = "idle"
    /\ query = ""
    /\ config = DefaultHybridConfig
    /\ world \in HandlerWorlds
    /\ gor = [r \in Retrievers |-> "none"]
    /\ errChan = <<>>
    /\ recvCount = 0
    /\ bm25Results = <<>>
    /\ vectorResults = <<>>
    /\ graphResults = <<>>
    /\ fusedCandidates = <<>>
    /\ searchResult = NoResult
    /\ scorerCache = <<>>
    /\ calls = <<>>
    /\ CacheIdle
    /\ IngestIdle
    /\ now = 0
    /\ hybridSearchEngine \in {"set", "nil"}
    /\ request = NoRequest
    /\ response = NoResponse
    /\ PureIdle

\* the handler up to the call of Search: the method, the engine, the body, the
\* query, the config, the weights
HybridSearchHandler(req, roundedOut) ==
    /\ request = NoRequest
    /\ request' = req
    /\ LET cfg == buildConfig(req)
           refused ==
               IF req.Method # "POST" THEN [code |-> 405, body |-> "Method not allowed"]
               ELSE IF hybridSearchEngine = "nil"
                    THEN [code |-> 503, body |-> "Hybrid search not available"]
               ELSE IF ~req.decoded THEN [code |-> 400, body |-> "Invalid request body"]
               ELSE IF req.Query = "" THEN [code |-> 400, body |-> "Query cannot be empty"]
               ELSE IF weightsRejected(cfg, roundedOut)
                    THEN [code |-> 400, body |-> "Weights must sum to 1.0"]
               ELSE [code |-> 0, body |-> ""]
       IN /\ response' = [NoResponse EXCEPT !.code = refused.code, !.body = refused.body]
          /\ config' = IF refused.code = 0 THEN cfg ELSE config
    /\ UNCHANGED <<pc, query, world, gor, errChan, recvCount, bm25Results, vectorResults,
                   graphResults, fusedCandidates, searchResult, scorerCache, calls,
                   cacheVars, now, ingestVars, hybridSearchEngine, pureVars>>

\* a.hybridSearchEngine.Search(r.Context(), req.Query, config)
HandlerSearch ==
    /\ request # NoRequest
    /\ response.code = 0
    /\ SearchStart(request.Query)

\* Search returned: 500 on an error, else 200 with the candidates
HandlerRespond ==
    /\ request # NoRequest
    /\ response.code = 0
    /\ pc = "done"
    /\ response' = IF searchResult.ok
                   THEN [code |-> 200, body |-> "", candidates |-> searchResult.list]
                   ELSE [code |-> 500, body |-> "Search failed: " \o searchResult.err,
                         candidates |-> <<>>]
    /\ UNCHANGED <<searchVars, cacheVars, now, ingestVars, hybridSearchEngine, request,
                   pureVars>>

HandlerNext ==
    \/ /\ request = NoRequest
       /\ \E req \in Requests, roundedOut \in BOOLEAN : HybridSearchHandler(req, roundedOut)
    \/ HandlerSearch
    \/ \E r \in Retrievers : Retrieve(r)
    \/ \E r \in Retrievers : Receive(r)
    \/ ReceiveErr
    \/ SearchFuse
    \/ \E llm \in HandlerReplies : SearchScore(llm)
    \/ HandlerRespond

SpecHandler == HandlerInit /\ [][HandlerNext]_vars

-----------------------------------------------------------------------------
(* CV ingest: CVUploadHandler and cvProcessingWorker *)

MaxUploads == 2         \* upload requests
CVQueueCap == 1         \* capacity given to cvProcessingQueue (the program makes it 50)
EmbeddingQueueCap == 1  \* capacity given to embeddingQueue (the program makes it 100)

Texts == {"abc", "xyz"}
\* the texts are interchangeable: the first upload is given "abc"
UploadTexts(u) == IF u = 1 THEN {"abc"} ELSE Texts

\* hex(sha256(text)), taken to be injective
contentHash(text) == "sha256:" \o text

NoResp == [code |-> 0, status |-> "", cv_id |-> 0, job_id |-> 0]
\* existing and alone are history: the stored row with the same hash, and whether
\* every earlier request had been answered, when the request looked for a duplicate
NewUpload == [pc |-> "new", text |-> "", existing |-> 0, alone |-> FALSE, cvID |-> 0,
              jobID |-> 0, inserted |-> FALSE, resp |-> NoResp]
NewTrace == [taken |-> 0, dropped |-> FALSE, extract |-> "none", graph |-> "none",
             dbErr |-> FALSE, finished |-> FALSE]

\* the id of the row with this hash, 0 for sql.ErrNoRows; content_hash is unique
FindCVByHash(files, hash) ==
    LET hits == {i \in 1..Len(files) : files[i].content_hash = hash}
    IN IF hits = {} THEN 0 ELSE CHOOSE i \in hits : TRUE

\* INSERT ... ON CONFLICT (content_hash) DO UPDATE SET uploaded_at = NOW() RETURNING id
SaveCVFileWithHash(files, text, hash) ==
    LET old == FindCVByHash(files, hash)
    IN IF old # 0
       THEN [files |-> files, id |-> old, inserted |-> FALSE]
       ELSE [files |-> Append(files, [parsed_text |-> text, content_hash |-> hash]),
             id |-> Len(files) + 1, inserted |-> TRUE]

\* INSERT INTO cv_upload_jobs (cv_file_id, status) VALUES ($1, 'pending')
CreateCVUploadJob(js, cvFileID) ==
    Append(js, [cv_file_id |-> cvFileID, status |-> "pending", error_message |-> ""])

UpdateJobStatus(js, jobID, status, errorMsg) ==
    [js EXCEPT ![jobID] = [@ EXCEPT !.status = status,
                                    !.error_message = IF status = "failed" THEN errorMsg ELSE @]]

\* a storage call that may fail: the table stays as it was
Try(ok, after, before) == IF ok THEN after ELSE before

\* the duplicate check of CVUploadHandler
CVUploadFind(u, text, dbOk) ==
    /\ u = Len(uploads) + 1
    /\ u <= MaxUploads
    /\ LET hash == contentHash(text)
           existingCV == FindCVByHash(cvFiles, hash)
           up == [NewUpload EXCEPT !.text = text, !.existing = existingCV,
                                   !.alone = \A v \in DOMAIN uploads : uploads[v].pc = "done"]
       IN uploads' = Append(uploads,
             IF dbOk /\ existingCV # 0
             THEN [up EXCEPT !.pc = "done",
                             !.resp = [code |-> 200, status |-> "duplicate",
                                       cv_id |-> existingCV, job_id |-> 0]]
             ELSE [up EXCEPT !.pc = "save"])
    /\ UNCHANGED <<llmService, cvFiles, jobs, trace, cvProcessingQueue, embeddingQueue, embeddingDropped,
                   worker, graphNodes, graphEdges>>
    /\ UNCHANGED <<searchVars, cacheVars, now, httpVars, pureVars>>

\* SaveCVFileWithHash and CreateCVUploadJob, or the 500 response of the one that
\* fails; the column cv_files.job_id, which CreateCVUploadJob sets next and
\* nothing here reads, is left out of cvFiles
CVUploadSave(u, saveOk, jobOk) ==
    /\ u \in DOMAIN uploads
    /\ uploads[u].pc = "save"
    /\ LET r == SaveCVFileWithHash(cvFiles, uploads[u].text, contentHash(uploads[u].text))
           failed == [NoResp EXCEPT !.code = 500]
       IN IF ~saveOk
          THEN /\ uploads' = [uploads EXCEPT ![u] = [@ EXCEPT !.pc = "done", !.resp = failed]]
               /\ UNCHANGED <<cvFiles, jobs, trace>>
          ELSE /\ cvFiles' = r.files
               /\ IF ~jobOk
                  THEN /\ uploads' = [uploads EXCEPT ![u] = [@ EXCEPT !.pc = "done",
                                                                      !.cvID = r.id,
                                                                      !.inserted = r.inserted,
                                                                      !.resp = failed]]
                       /\ UNCHANGED <<jobs, trace>>
                  ELSE /\ jobs' = CreateCVUploadJob(jobs, r.id)
                       /\ trace' = Append(trace, NewTrace)
                       /\ uploads' = [uploads EXCEPT ![u] = [@ EXCEPT !.pc = "queue",
                                                                      !.cvID = r.id,
                                                                      !.inserted = r.inserted,
                                                                      !.jobID = Len(jobs) + 1]]
    /\ UNCHANGED <<llmService, cvProcessingQueue, embeddingQueue, embeddingDropped, worker, graphNodes,
                   graphEdges>>
    /\ UNCHANGED <<searchVars, cacheVars, now, httpVars, pureVars>>

\* queueCVProcessingJob: the non-blocking send, and the job dropped when the queue is full
queueCVProcessingJob(q, js, jobID, cvFileID, cvText, dbOk) ==
    IF Len(q) < CVQueueCap
    THEN [queue |-> Append(q, [JobID |-> jobID, CVFileID |-> cvFileID, CVText |-> cvText]),
          jobs |-> js, dropped |-> FALSE]
    ELSE [queue |-> q,
          jobs |-> Try(dbOk, UpdateJobStatus(js, jobID, "failed", "Queue full, job dropped"), js),
          dropped |-> TRUE]

\* the job is queued and the 202 response written
CVUploadQueue(u, dbOk) ==
    /\ u \in DOMAIN uploads
    /\ uploads[u].pc = "queue"
    /\ LET up == uploads[u]
           r == queueCVProcessingJob(cvProcessingQueue, jobs, up.jobID, up.cvID, up.text, dbOk)
       IN /\ cvProcessingQueue' = r.queue
          /\ jobs' = r.jobs
          /\ trace' = [trace EXCEPT ![up.jobID] =
                          [@ EXCEPT !.dropped = r.dropped,
                                    !.finished = r.dropped,
                                    !.dbErr = r.dropped /\ ~dbOk]]
          /\ uploads' = [uploads EXCEPT ![u] =
                            [@ EXCEPT !.pc = "done",
                                      !.resp = [code |-> 202, status |-> "pending",
                                                cv_id |-> up.cvID, job_id |-> up.jobID]]]
    /\ UNCHANGED <<llmService, cvFiles, embeddingQueue, embeddingDropped, worker, graphNodes, graphEdges>>
    /\ UNCHANGED <<searchVars, cacheVars, now, httpVars, pureVars>>

\* for job := range a.cvProcessingQueue
receive(q) == [job |-> Head(q), rest |-> Tail(q)]

\* the worker takes a job: UpdateJobStatus "processing", or the next job when it
\* fails; then the llmService check
WorkerTake(dbOk) ==
    /\ worker.pc = "idle"
    /\ cvProcessingQueue # <<>>
    /\ LET job == receive(cvProcessingQueue).job
           j == job.JobID
       IN /\ cvProcessingQueue' = receive(cvProcessingQueue).rest
          /\ jobs' = Try(dbOk, UpdateJobStatus(jobs, j, "processing", ""), jobs)
          /\ worker' = IF ~dbOk THEN IdleWorker
                       ELSE [IdleWorker EXCEPT !.job = job,
                                               !.pc = IF llmService = "nil" THEN "check"
                                                      ELSE "extract"]
          /\ trace' = [trace EXCEPT ![j] = [@ EXCEPT !.taken = @ + 1,
                                                     !.dbErr = ~dbOk,
                                                     !.finished = ~dbOk]]
    /\ UNCHANGED <<llmService, uploads, cvFiles, embeddingQueue, embeddingDropped, graphNodes,
                   graphEdges>>
    /\ UNCHANGED <<searchVars, cacheVars, now, httpVars, pureVars>>

\* a.llmService == nil: the job fails
WorkerNoLLM(dbOk) ==
    /\ worker.pc = "check"
    /\ LET j == worker.job.JobID
       IN /\ jobs' = Try(dbOk, UpdateJobStatus(jobs, j, "failed", "LLM service not available"),
                         jobs)
          /\ worker' = IdleWorker
          /\ trace' = [trace EXCEPT ![j] = [@ EXCEPT !.dbErr = ~dbOk, !.finished = TRUE]]
    /\ UNCHANGED <<llmService, uploads, cvFiles, cvProcessingQueue, embeddingQueue, embeddingDropped,
                   graphNodes, graphEdges>>
    /\ UNCHANGED <<searchVars, cacheVars, now, httpVars, pureVars>>

\* what ExtractEntities makes of a text when it succeeds; the texts name no company
ExtractEntities(text) ==
    [name |-> IF text = "abc" THEN "Ann" ELSE "Bea", skills |-> <<"go">>,
     companies |-> <<>>]

\* where the worker goes after ExtractEntities: back to the queue on an error
afterExtractMut(err) == "build"
afterExtract(err) == IF err THEN "idle" ELSE "build"

\* ExtractEntities; the rows it then adds to cv_entities, which nothing here
\* reads and whose errors are dropped, are left out
WorkerExtract(llmOk, dbOk) ==
    /\ worker.pc = "extract"
    /\ LET j == worker.job.JobID
           extraction == ExtractEntities(worker.job.CVText)
       IN IF ~llmOk
          THEN /\ jobs' = Try(dbOk, UpdateJobStatus(jobs, j, "failed", "LLM extraction failed"),
                              jobs)
               /\ trace' = [trace EXCEPT ![j] = [@ EXCEPT !.extract = "err",
                                                          !.dbErr = ~dbOk,
                                                          !.finished = afterExtract(TRUE) = "idle"]]
               /\ worker' = IF afterExtract(TRUE) = "idle" THEN IdleWorker
                            ELSE [worker EXCEPT !.pc = afterExtract(TRUE),
                                                !.extraction = extraction]
          ELSE /\ jobs' = jobs
               /\ trace' = [trace EXCEPT ![j] = [@ EXCEPT !.extract = "ok"]]
               /\ worker' = [worker EXCEPT !.pc = afterExtract(FALSE),
                                           !.extraction = extraction]
    /\ UNCHANGED <<llmService, uploads, cvFiles, cvProcessingQueue, embeddingQueue, embeddingDropped,
                   graphNodes, graphEdges>>
    /\ UNCHANGED <<searchVars, cacheVars, now, httpVars, pureVars>>

personID(cvID) == "person_" \o ToString(cvID)
skillID(name) == "skill_" \o name

companyID(name) == "company_" \o name

\* WORKS_AT for a current company, and for the first company when it is not
workEdgeType(company, i) ==
    IF company.IsCurrent THEN "WORKS_AT"
    ELSE IF i = 0 THEN "WORKS_AT"
    ELSE "WORKED_AT"

\* the entities and relationships BuildFromLLMExtraction collects (education, and
\* the properties that no definition here reads, are left out)
BuildEntities(cvID, ext) ==
    <<[Type |-> "person", Value |-> personID(cvID),
       Properties |-> [cv_id |-> cvID, name |-> ext.name]]>>
    \o [i \in 1..Len(ext.skills) |->
          [Type |-> "skill", Value |-> skillID(ext.skills[i]),
           Properties |-> [name |-> ext.skills[i]]]]
    \o [i \in 1..Len(ext.companies) |->
          [Type |-> "company", Value |-> companyID(ext.companies[i].Name),
           Properties |-> [name |-> ext.companies[i].Name]]]

BuildRelationships(cvID, ext) ==
    [i \in 1..Len(ext.skills) |->
        [SourceType |-> "person", SourceID |-> personID(cvID),
         TargetType |-> "skill", TargetID |-> skillID(ext.skills[i]),
         EdgeType |-> "HAS_SKILL"]]
    \o [i \in 1..Len(ext.companies) |->
          [SourceType |-> "person", SourceID |-> personID(cvID),
           TargetType |-> "company", TargetID |-> companyID(ext.companies[i].Name),
           EdgeType |-> workEdgeType(ext.companies[i], i - 1)]]

\* CreateNodes for the first n entities: INSERT ... ON CONFLICT (node_type, node_id)
\* DO UPDATE SET properties = EXCLUDED.properties
RECURSIVE CreateNodes(_, _, _)
CreateNodes(nodes, entities, n) ==
    IF n = 0 THEN nodes
    ELSE LET e == entities[n]
         IN Put(CreateNodes(nodes, entities, n - 1), <<e.Type, e.Value>>, e.Properties)

\* CreateEdges for the first n relationships: a plain INSERT for every relationship
\* whose two nodes are found
RECURSIVE CreateEdges(_, _, _, _)
CreateEdges(edges, nodes, relationships, n) ==
    IF n = 0 THEN edges
    ELSE LET rel == relationships[n]
             before == CreateEdges(edges, nodes, relationships, n - 1)
         IN IF /\ <<rel.SourceType, rel.SourceID>> \in DOMAIN nodes
               /\ <<rel.TargetType, rel.TargetID>> \in DOMAIN nodes
            THEN Append(before, [source |-> <<rel.SourceType, rel.SourceID>>,
                                 target |-> <<rel.TargetType, rel.TargetID>>,
                                 edge_type |-> rel.EdgeType])
            ELSE before

\* how far a graph write gets: the statement that fails, if any
WriteOutcomes(entities, relationships) ==
    {[nodes |-> n, edges |-> 0, err |-> TRUE] : n \in 0..(entities - 1)}
    \cup {[nodes |-> entities, edges |-> k, err |-> k < relationships] :
          k \in 0..relationships}

BuildOutcomes(ext) ==
    WriteOutcomes(1 + Len(ext.skills) + Len(ext.companies),
                  Len(ext.skills) + Len(ext.companies))

BuildFromLLMExtraction(nodes, edges, cvID, ext, outcome) ==
    LET newNodes == CreateNodes(nodes, BuildEntities(cvID, ext), outcome.nodes)
    IN [nodes |-> newNodes,
        edges |-> CreateEdges(edges, newNodes, BuildRelationships(cvID, ext), outcome.edges),
        err |-> outcome.err]

\* SELECT node_id FROM graph_nodes WHERE embedding IS NULL; no node is embedded here
collectNewNodeIDs(nodes, queryOk) == IF queryOk THEN {k[2] : k \in DOMAIN nodes} ELSE {}

\* a send that waits for room, which the program does not make
QueueEmbeddingJobMut(q, cvID, nodeIDs) ==
    [queue |-> Append(q, [CVID |-> cvID, NodeIDs |-> nodeIDs]), dropped |-> FALSE]

\* the non-blocking send on embeddingQueue; the default branch only logs
QueueEmbeddingJob(q, cvID, nodeIDs) ==
    IF Len(q) < EmbeddingQueueCap
    THEN [queue |-> Append(q, [CVID |-> cvID, NodeIDs |-> nodeIDs]), dropped |-> FALSE]
    ELSE [queue |-> q, dropped |-> TRUE]

\* BuildFromLLMExtraction
\* where the worker goes after BuildFromLLMExtraction: the embedding job is for a
\* graph that was built
afterBuildMut(err) == "embed"
afterBuild(err) == IF err THEN "complete" ELSE "embed"

WorkerBuild(outcome) ==
    /\ worker.pc = "build"
    /\ LET j == worker.job.JobID
           r == BuildFromLLMExtraction(graphNodes, graphEdges, worker.job.CVFileID,
                                       worker.extraction, outcome)
       IN /\ graphNodes' = r.nodes
          /\ graphEdges' = r.edges
          /\ trace' = [trace EXCEPT ![j] = [@ EXCEPT !.graph = IF r.err THEN "err" ELSE "ok"]]
          /\ worker' = [worker EXCEPT !.pc = afterBuild(r.err)]
    /\ UNCHANGED <<llmService, uploads, cvFiles, jobs, cvProcessingQueue, embeddingQueue,
                   embeddingDropped>>
    /\ UNCHANGED <<searchVars, cacheVars, now, httpVars, pureVars>>

\* the graph was built: collectNewNodeIDs, then QueueEmbeddingJob when there are nodes
WorkerQueueEmbedding(queryOk) ==
    /\ worker.pc = "embed"
    /\ LET cvID == worker.job.CVFileID
           newNodeIDs == collectNewNodeIDs(graphNodes, queryOk)
           r == QueueEmbeddingJob(embeddingQueue, cvID, newNodeIDs)
       IN IF newNodeIDs # {}
          THEN /\ embeddingQueue' = r.queue
               /\ embeddingDropped' = IF r.dropped THEN embeddingDropped \cup {cvID}
                                                   ELSE embeddingDropped
          ELSE UNCHANGED <<embeddingQueue, embeddingDropped>>
    /\ worker' = [worker EXCEPT !.pc = "complete"]
    /\ UNCHANGED <<llmService, uploads, cvFiles, jobs, trace, cvProcessingQueue,
                   graphNodes, graphEdges>>
    /\ UNCHANGED <<searchVars, cacheVars, now, httpVars, pureVars>>

\* POST /graphrag/embeddings/generate: one job, CV id 0, for every node without an
\* embedding; the request changes nothing when the query fails or finds no node
GenerateEmbeddingsHandler(queryOk) ==
    /\ LET nodeIDs == collectNewNodeIDs(graphNodes, queryOk)
           r == QueueEmbeddingJob(embeddingQueue, 0, nodeIDs)
       IN /\ nodeIDs # {}
          /\ embeddingQueue' = r.queue
          /\ embeddingDropped' = IF r.dropped THEN embeddingDropped \cup {0}
                                              ELSE embeddingDropped
    /\ UNCHANGED <<llmService, uploads, cvFiles, jobs, trace, cvProcessingQueue, worker,
                   graphNodes, graphEdges>>
    /\ UNCHANGED <<searchVars, cacheVars, now, httpVars, pureVars>>

\* UpdateJobStatus "completed", whatever the graph write did
WorkerComplete(dbOk) ==
    /\ worker.pc = "complete"
    /\ LET j == worker.job.JobID
       IN /\ jobs' = Try(dbOk, UpdateJobStatus(jobs, j, "completed", ""), jobs)
          /\ trace' = [trace EXCEPT ![j] = [@ EXCEPT !.dbErr = @ \/ ~dbOk,
                                                     !.finished = TRUE]]
    /\ worker' = IdleWorker
    /\ UNCHANGED <<llmService, uploads, cvFiles, cvProcessingQueue, embeddingQueue, embeddingDropped,
                   graphNodes, graphEdges>>
    /\ UNCHANGED <<searchVars, cacheVars, now, httpVars, pureVars>>

IngestInit ==
    /\ SearchIdle
    /\ CacheIdle
    /\ HandlerIdle
    /\ PureIdle
    /\ now = 0
    /\ llmService \in {"set", "nil"}
    /\ uploads = <<>>
    /\ cvFiles = <<>>
    /\ jobs = <<>>
    /\ trace = <<>>
    /\ cvProcessingQueue = <<>>
    /\ embeddingQueue = <<>>
    /\ embeddingDropped = {}
    /\ worker = IdleWorker
    /\ graphNodes = <<>>
    /\ graphEdges = <<>>

IngestNext ==
    \/ \E u \in 1..MaxUploads : \E text \in UploadTexts(u), dbOk \in BOOLEAN :
          CVUploadFind(u, text, dbOk)
    \/ \E u \in 1..MaxUploads, saveOk, jobOk \in BOOLEAN : CVUploadSave(u, saveOk, jobOk)
    \/ \E u \in 1..MaxUploads, dbOk \in BOOLEAN : CVUploadQueue(u, dbOk)
    \/ \E dbOk \in BOOLEAN : WorkerTake(dbOk)
    \/ \E dbOk \in BOOLEAN : WorkerNoLLM(dbOk)
    \/ \E llmOk, dbOk \in BOOLEAN : WorkerExtract(llmOk, dbOk)
    \/ \E outcome \in BuildOutcomes(worker.extraction) : WorkerBuild(outcome)
    \/ \E queryOk \in BOOLEAN : WorkerQueueEmbedding(queryOk)
    \/ \E dbOk \in BOOLEAN : WorkerComplete(dbOk)

SpecIngest == IngestInit /\ [][IngestNext]_vars

\* The two background queues with all their producers: the upload handler, the
\* worker and the embeddings handler. Storage is let fail where a send is refused,
\* and the graph write at any statement; the other calls succeed.
QueueNext ==
    \/ \E u \in 1..MaxUploads : \E text \in UploadTexts(u) : CVUploadFind(u, text, TRUE)
    \/ \E u \in 1..MaxUploads : CVUploadSave(u, TRUE, TRUE)
    \/ \E u \in 1..MaxUploads, dbOk \in BOOLEAN : CVUploadQueue(u, dbOk)
    \/ WorkerTake(TRUE)
    \/ WorkerNoLLM(TRUE)
    \/ WorkerExtract(TRUE, TRUE)
    \/ \E outcome \in BuildOutcomes(worker.extraction) : WorkerBuild(outcome)
    \/ \E queryOk \in BOOLEAN : WorkerQueueEmbedding(queryOk)
    \/ \E queryOk \in BOOLEAN : GenerateEmbeddingsHandler(queryOk)
    \/ WorkerComplete(TRUE)

SpecQueue == IngestInit /\ [][QueueNext]_vars

-----------------------------------------------------------------------------
(* The graph tables under their writers: BuildFromLLMExtraction, once for every
   CV, and BuildCandidateGraph *)

MaxBuilds == 2      \* CV ids and candidate ids
MaxCompanies == 2   \* companies in one extraction
MaxEdges == 3       \* rows of graph_edges

CompanyEntries == [Name : {"acme", "bolt"}, IsCurrent : BOOLEAN]

\* what the LLM may extract: a skill, possibly named twice, and companies
GraphExtractions ==
    {[name |-> "Ann", skills |-> sk, companies |-> co] :
        sk \in {<<"go">>, <<"go", "go">>}, co \in SeqsUpTo(CompanyEntries, MaxCompanies)}

\* rows of the candidates table; Skills is the list parseSkills makes
Candidates ==
    [ID : 1..MaxBuilds, Name : {"Ann"}, Email : {"ann@x.io"}, Experience : {"5y"},
     Skills : {<<"go">>}, Location : {"", "Oslo"}]

\* extractCandidateEntities: the person, the location, the skills
candidateEntities(c) ==
    <<[Type |-> "person", Value |-> personID(c.ID),
       Properties |-> [name |-> c.Name, email |-> c.Email, experience |-> c.Experience]]>>
    \o (IF c.Location # ""
        THEN <<[Type |-> "location", Value |-> c.Location, Properties |-> <<>>]>>
        ELSE <<>>)
    \o [i \in 1..Len(c.Skills) |->
          [Type |-> "skill", Value |-> c.Skills[i], Properties |-> <<>>]]

candidateRelationships(c) ==
    (IF c.Location # ""
     THEN <<[SourceType |-> "person", SourceID |-> personID(c.ID),
             TargetType |-> "location", TargetID |-> c.Location, EdgeType |-> "located_in"]>>
     ELSE <<>>)
    \o [i \in 1..Len(c.Skills) |->
          [SourceType |-> "person", SourceID |-> personID(c.ID),
           TargetType |-> "skill", TargetID |-> c.Skills[i], EdgeType |-> "has_skill"]]

\* BuildCandidateGraph for a candidate without CV text
BuildCandidateGraph(nodes, edges, c, outcome) ==
    LET newNodes == CreateNodes(nodes, candidateEntities(c), outcome.nodes)
    IN [nodes |-> newNodes,
        edges |-> CreateEdges(edges, newNodes, candidateRelationships(c), outcome.edges),
        err |-> outcome.err]

GraphInit ==
    /\ SearchIdle
    /\ CacheIdle
    /\ IngestIdle
    /\ HandlerIdle
    /\ PureIdle
    /\ now = 0

\* the graph write of the ingest job of CV cvID; a CV has one job
GraphBuildFromLLM(cvID, ext, outcome) ==
    /\ ~(/\ <<"person", personID(cvID)>> \in DOMAIN graphNodes
         /\ "cv_id" \in DOMAIN graphNodes[<<"person", personID(cvID)>>])
    /\ Len(graphEdges) + outcome.edges <= MaxEdges
    /\ LET r == BuildFromLLMExtraction(graphNodes, graphEdges, cvID, ext, outcome)
       IN graphNodes' = r.nodes /\ graphEdges' = r.edges
    /\ UNCHANGED <<llmService, uploads, cvFiles, jobs, trace, cvProcessingQueue,
                   embeddingQueue, embeddingDropped, worker>>
    /\ UNCHANGED <<searchVars, cacheVars, now, httpVars, pureVars>>

GraphBuildCandidate(c, outcome) ==
    /\ Len(graphEdges) + outcome.edges <= MaxEdges
    /\ LET r == BuildCandidateGraph(graphNodes, graphEdges, c, outcome)
       IN graphNodes' = r.nodes /\ graphEdges' = r.edges
    /\ UNCHANGED <<llmService, uploads, cvFiles, jobs, trace, cvProcessingQueue,
                   embeddingQueue, embeddingDropped, worker>>
    /\ UNCHANGED <<searchVars, cacheVars, now, httpVars, pureVars>>

GraphNext ==
    \/ \E cvID \in 1..MaxBuilds, ext \in GraphExtractions :
          \E outcome \in BuildOutcomes(ext) : GraphBuildFromLLM(cvID, ext, outcome)
    \/ \E c \in Candidates :
          \E outcome \in WriteOutcomes(Len(candidateEntities(c)),
                                        Len(candidateRelationships(c))) :
              GraphBuildCandidate(c, outcome)

SpecGraph == GraphInit /\ [][GraphNext]_vars

-----------------------------------------------------------------------------
(* The company list enrichCandidates of hybrid search loads for a person, from
   the tables the ingest graph writes made *)

\* the properties BuildFromLLMExtraction gives an edge, which its type decides
\* here: the extractions name no position and no proficiency
relationshipProperties(edgeType) ==
    IF edgeType \in {"WORKS_AT", "WORKED_AT"} THEN [position |-> ""]
    ELSE IF edgeType = "HAS_SKILL" THEN [proficiency |-> ""]
    ELSE <<>>

\* the edge types of the query that loads the companies
companyEdgeTypes == {"WORKED_AT"}

\* edgeProps["is_current"].(bool), false when the key is absent
isCurrentOf(edgeProps) ==
    IF "is_current" \in DOMAIN edgeProps THEN edgeProps.is_current ELSE FALSE

\* the rows of the company query for a person, in the order of the table
RECURSIVE loadCompanies(_, _, _, _)
loadCompanies(nodes, edges, pid, n) ==
    IF n = 0 THEN <<>>
    ELSE LET e == edges[n]
             before == loadCompanies(nodes, edges, pid, n - 1)
         IN IF /\ e.source = <<"person", pid>>
               /\ e.edge_type \in companyEdgeTypes
               /\ e.target[1] = "company"
            THEN Append(before, [Name |-> nodes[e.target].name,
                                 Position |-> relationshipProperties(e.edge_type).position,
                                 IsCurrent |-> isCurrentOf(relationshipProperties(e.edge_type))])
            ELSE before

\* the companies of one candidate after enrichCandidates; a candidate whose person
\* node is not found is left as it was
enrichCompanies(nodes, edges, pid) ==
    IF <<"person", pid>> \notin DOMAIN nodes THEN <<>>
    ELSE loadCompanies(nodes, edges, pid, Len(edges))

EnrichInit ==
    /\ SearchIdle
    /\ CacheIdle
    /\ IngestIdle
    /\ HandlerIdle
    /\ PureIdle
    /\ now = 0

EnrichCandidatesCall(pid) ==
    /\ callArgs = NoCallArgs
    /\ callArgs' = [fn |-> "enrichCandidates", PersonID |-> pid]
    /\ callResult' = [fn |-> "enrichCandidates",
                      Companies |-> enrichCompanies(graphNodes, graphEdges, pid)]
    /\ UNCHANGED <<searchVars, cacheVars, now, ingestVars, httpVars, llmResponse,
                   scoreResponse, skills, membership>>

EnrichNext ==
    \/ /\ callArgs = NoCallArgs
       /\ \E cvID \in 1..MaxBuilds, ext \in GraphExtractions :
             \E outcome \in BuildOutcomes(ext) : GraphBuildFromLLM(cvID, ext, outcome)
    \/ \E cvID \in 1..MaxBuilds : EnrichCandidatesCall(personID(cvID))

SpecEnrich == EnrichInit /\ [][EnrichNext]_vars

\* what the company list of a person is to hold: an entry for each of the
\* person's WORKS_AT and WORKED_AT edges, current exactly for WORKS_AT
WorkEntries(pid) ==
    LET rows == SelectSeq(graphEdges,
                          LAMBDA e : /\ e.source = <<"person", pid>>
                                     /\ e.edge_type \in {"WORKS_AT", "WORKED_AT"})
    IN [i \in 1..Len(rows) |->
          [Name |-> graphNodes[rows[i].target].name,
           IsCurrent |-> rows[i].edge_type = "WORKS_AT"]]

CountIn(seq, x) == Cardinality({i \in DOMAIN seq : seq[i] = x})

\* C24: after enrichment in hybrid search a candidate's company list has one
\* entry for each WORKS_AT or WORKED_AT edge of the person, and an entry's
\* is_current is true exactly when it comes from a WORKS_AT edge.
C24_CompanyEntryPerWorkEdge ==
    callResult.fn = "enrichCandidates" =>
        LET expected == WorkEntries(callArgs.PersonID)
            loaded == [i \in DOMAIN callResult.Companies |->
                          [Name |-> callResult.Companies[i].Name,
                           IsCurrent |-> callResult.Companies[i].IsCurrent]]
        IN /\ Len(loaded) = Len(expected)
           /\ \A i \in DOMAIN expected :
                 CountIn(loaded, expected[i]) = CountIn(expected, expected[i])

-----------------------------------------------------------------------------
(* extractJSON on its own, on texts of braces and one other character *)

MaxText == 5    \* longest text given to extractJSON

RECURSIVE TextsUpTo(_)
TextsUpTo(n) ==
    IF n = 0 THEN {""}
    ELSE TextsUpTo(n - 1) \cup {t \o c : t \in TextsUpTo(n - 1), c \in {"{", "}", "a"}}

charAt(text, i) == SubSeq(text, i, i)

\* the loop over the characters from position i (from 1 here, from 0 in the
\* program), with start, end and braceCount as the loop has them; start and end
\* are 0 where the program has -1
RECURSIVE scanJSON(_, _, _, _)
scanJSON(text, i, start, braceCount) ==
    IF i > Len(text) THEN [start |-> start, end |-> 0]
    ELSE IF charAt(text, i) = "{"
         THEN scanJSON(text, i + 1, IF start = 0 THEN i ELSE start, braceCount + 1)
    ELSE IF charAt(text, i) = "}"
         THEN IF braceCount - 1 = 0 /\ start # 0
              THEN [start |-> start, end |-> i]
              ELSE scanJSON(text, i + 1, start, braceCount - 1)
    ELSE scanJSON(text, i + 1, start, braceCount)

extractJSON(text) ==
    LET r == scanJSON(text, 1, 0, 0)
    IN IF r.start # 0 /\ r.end # 0 THEN SubSeq(text, r.start, r.end) ELSE ""

JSONInit ==
    /\ SearchIdle
    /\ CacheIdle
    /\ IngestIdle
    /\ HandlerIdle
    /\ PureIdle
    /\ now = 0

ExtractJSONCall(text) ==
    /\ callArgs = NoCallArgs
    /\ callArgs' = [fn |-> "extractJSON", text |-> text]
    /\ callResult' = [fn |-> "extractJSON", out |-> extractJSON(text)]
    /\ UNCHANGED <<searchVars, cacheVars, now, ingestVars, httpVars, llmResponse,
                   scoreResponse, skills, membership>>

JSONNext == \E text \in TextsUpTo(MaxText) : ExtractJSONCall(text)

SpecJSON == JSONInit /\ [][JSONNext]_vars

\* opening braces less closing braces in text[i..j]
Depth(text, i, j) ==
    Cardinality({k \in i..j : charAt(text, k) = "{"})
    - Cardinality({k \in i..j : charAt(text, k) = "}"})

\* text[i..j] is a brace-balanced {...}: j closes the brace that i opens
BalancedRegion(text, i, j) ==
    /\ i < j
    /\ charAt(text, i) = "{"
    /\ Depth(text, i, j) = 0
    /\ \A m \in i..(j - 1) : Depth(text, i, m) > 0

\* C26: when the text holds a brace-balanced {...} region, extractJSON returns the
\* first one, from its opening brace to the matching closing brace, whatever
\* comes before or after it.
C26_FirstBalancedRegion ==
    callResult.fn = "extractJSON" =>
        LET text == callArgs.text
            opens == {i \in 1..Len(text) : \E j \in 1..Len(text) : BalancedRegion(text, i, j)}
        IN opens # {} =>
              LET i == CHOOSE k \in opens : \A m \in opens : k <= m
                  j == CHOOSE k \in 1..Len(text) : BalancedRegion(text, i, k)
              IN callResult.out = SubSeq(text, i, j)

-----------------------------------------------------------------------------
(* EmbeddingService.SimilaritySearch on its own: graph_nodes rows with their
   embedding column, an embedding being known by its cosine similarity to the
   embedding of the query text (1 - distance) *)

MaxNodes == 3       \* rows of graph_nodes
MaxSimilarity == 2  \* largest similarity of a stored embedding
MaxTopK == 2        \* largest topK

nodeName(i) == "node_" \o ToString(i)

\* the tables: row i has node_id node_i; a row without embedding has similarity 0
EmbeddedNodeTables ==
    {t \in SeqsUpTo([node_type : {"person", "skill"}, hasEmbedding : BOOLEAN,
                     similarity : 0..MaxSimilarity], MaxNodes) :
        \A i \in 1..Len(t) : ~t[i].hasEmbedding => t[i].similarity = 0}

\* WHERE embedding IS NOT NULL AND node_type = 'person'
similarityWhere(t) == {i \in 1..Len(t) : t[i].hasEmbedding /\ t[i].node_type = "person"}

\* ORDER BY similarity ASC: every order of the rows the sort may give
similarityOrderBy(t, rows) ==
    {o \in [1..Cardinality(rows) -> rows] :
        /\ \A i, j \in DOMAIN o : i # j => o[i] # o[j]
        /\ \A i, j \in DOMAIN o : i < j => t[o[i]].similarity <= t[o[j]].similarity}

\* LIMIT $2
limit(o, n) == SubSeq(o, 1, IF Len(o) < n THEN Len(o) ELSE n)

\* every answer SimilaritySearch may give: the node ids and their similarities
SimilaritySearch(t, topK, embedOk) ==
    IF ~embedOk
    THEN {[fn |-> "SimilaritySearch", err |-> TRUE, nodeIDs |-> <<>>, similarities |-> <<>>]}
    ELSE {[fn |-> "SimilaritySearch", err |-> FALSE,
           nodeIDs |-> [i \in DOMAIN limit(o, topK) |-> nodeName(o[i])],
           similarities |-> [i \in DOMAIN limit(o, topK) |-> t[o[i]].similarity]] :
             o \in similarityOrderBy(t, similarityWhere(t))}

VectorInit ==
    /\ SearchIdle
    /\ CacheIdle
    /\ IngestIdle
    /\ HandlerIdle
    /\ PureIdle
    /\ now = 0

SimilaritySearchCall(t, topK, embedOk) ==
    /\ callArgs = NoCallArgs
    /\ callArgs' = [fn |-> "SimilaritySearch", nodes |-> t, topK |-> topK]
    /\ callResult' \in SimilaritySearch(t, topK, embedOk)
    /\ UNCHANGED <<searchVars, cacheVars, now, ingestVars, httpVars, llmResponse,
                   scoreResponse, skills, membership>>

VectorNext ==
    \E t \in EmbeddedNodeTables, topK \in 0..MaxTopK, embedOk \in BOOLEAN :
        SimilaritySearchCall(t, topK, embedOk)

SpecVector == VectorInit /\ [][VectorNext]_vars

\* the row of the table a returned node id names
rowOf(id) == CHOOSE i \in 1..Len(callArgs.nodes) : nodeName(i) = id

\* C22: SimilaritySearch(query, K) returns at most K person nodes, each with a
\* stored embedding, and they are the K closest to the query: no person with an
\* embedding that is left out has strictly higher similarity than a returned one.
C22_ReturnsKClosest ==
    (callResult.fn = "SimilaritySearch" /\ ~callResult.err) =>
        LET t == callArgs.nodes
            returned == {rowOf(callResult.nodeIDs[i]) : i \in DOMAIN callResult.nodeIDs}
        IN /\ Len(callResult.nodeIDs) <= callArgs.topK
           /\ \A i \in returned : t[i].node_type = "person" /\ t[i].hasEmbedding
           /\ \A x \in similarityWhere(t) \ returned :
                 \A y \in returned : ~(t[x].similarity > t[y].similarity)

-----------------------------------------------------------------------------
(* GraphQuerier.QueryGraph on its own: the person rows of graph_nodes, each with
   its outgoing edges, and the query buildQuery makes of a SearchCriteria *)

QueryLimit == 50    \* LIMIT 50
MaxExtra == 1       \* person rows beyond the limit

\* graph_nodes rows an edge can point at: node_id -> properties->>'name'
TargetNodes ==
    ("skill_go" :> "go") @@ ("skill_sql" :> "sql") @@
    ("company_Acme" :> "Acme") @@ ("company_Bolt" :> "Bolt") @@
    ("education_mit" :> "mit") @@ ("education_eth" :> "eth")

PersonEdges ==
    {[edge_type |-> "HAS_SKILL", target |-> "skill_go"],
     [edge_type |-> "HAS_SKILL", target |-> "skill_sql"],
     [edge_type |-> "WORKS_AT", target |-> "company_Acme"],
     [edge_type |-> "WORKED_AT", target |-> "company_Bolt"],
     [edge_type |-> "GRADUATED_FROM", target |-> "education_mit"],
     [edge_type |-> "GRADUATED_FROM", target |-> "education_eth"]}

\* total_experience_years: absent from the properties, or an integer
Experiences == {[null |-> TRUE, years |-> 0], [null |-> FALSE, years |-> 3],
                [null |-> FALSE, years |-> 7]}

PersonRows ==
    [seniority : {"Senior", "Junior"}, experience : Experiences, edges : SUBSET PersonEdges]

\* a *int of SearchCriteria
NilInt == [nil |-> TRUE, value |-> 0]
IntPtr(n) == [nil |-> FALSE, value |-> n]

SearchCriterias ==
    [Seniority : {"", "Senior"}, Skills : SUBSET {"go", "sql"},
     Companies : SUBSET {"acme", "bolt"}, Education : SUBSET {"mit", "eth"},
     MinExperience : {NilInt, IntPtr(5)}, MaxExperience : {NilInt, IntPtr(0), IntPtr(5)}]

\* two skills and the current company
SomeEdges == {e \in PersonEdges : e.edge_type \in {"HAS_SKILL", "WORKS_AT"}}

\* the tables with one person, of any kind
OnePersonTables == {<<p>> : p \in PersonRows}

\* the tables with as many persons as the limit or more, all alike
ManyPersonTables ==
    {[i \in 1..(QueryLimit + k) |-> p] :
        k \in 0..MaxExtra,
        p \in {q \in PersonRows : q.experience.null /\ q.edges \in {{}, SomeEdges}}}

\* the criteria asked of the tables with many persons: skills and companies
SkillCompanyCriterias ==
    {c \in SearchCriterias : /\ c.Seniority = "" /\ c.Education = {}
                             /\ c.MinExperience.nil /\ c.MaxExperience.nil}

\* p.properties->>'seniority' = $n, when a seniority is asked for
seniorityCondition(p, criteria) ==
    criteria.Seniority # "" => p.seniority = criteria.Seniority

\* the EXISTS of one skill
skillExists(p, skill) ==
    \E e \in p.edges : e.edge_type = "HAS_SKILL" /\ e.target = "skill_" \o skill

\* skill conditions joined by OR
skillsConditionMut(p, criteria) ==
    criteria.Skills # {} => \E skill \in criteria.Skills : skillExists(p, skill)

\* one condition for each skill, joined by AND with the others
skillsCondition(p, criteria) == \A skill \in criteria.Skills : skillExists(p, skill)

\* the EXISTS of one company: LIKE on the node_id, ILIKE on the name
companyExists(p, company) ==
    \E e \in p.edges :
        /\ e.edge_type \in {"WORKS_AT", "WORKED_AT"}
        /\ \/ Contains(e.target, "company_" \o company)
           \/ Contains(ToLower(TargetNodes[e.target]), ToLower(company))

\* the company conditions are joined by OR into one condition
companiesCondition(p, criteria) ==
    criteria.Companies # {} => \E company \in criteria.Companies : companyExists(p, company)

\* the EXISTS of one education
educationExists(p, edu) ==
    \E e \in p.edges : e.edge_type = "GRADUATED_FROM" /\ e.target = "education_" \o edu

\* the education conditions are joined by OR into one condition
educationCondition(p, criteria) ==
    criteria.Education # {} => \E edu \in criteria.Education : educationExists(p, edu)

\* (total_experience_years)::int >= min and <= max, each when the bound is given
\* and above 0; a comparison with an absent property is not true
experienceCondition(p, criteria) ==
    /\ (~criteria.MinExperience.nil /\ criteria.MinExperience.value > 0) =>
          (~p.experience.null /\ p.experience.years >= criteria.MinExperience.value)
    /\ (~criteria.MaxExperience.nil /\ criteria.MaxExperience.value > 0) =>
          (~p.experience.null /\ p.experience.years <= criteria.MaxExperience.value)

\* the WHERE of the query buildQuery returns
buildQuery(p, criteria) ==
    /\ seniorityCondition(p, criteria)
    /\ skillsCondition(p, criteria)
    /\ companiesCondition(p, criteria)
    /\ educationCondition(p, criteria)
    /\ experienceCondition(p, criteria)

\* the rows the WHERE keeps, as a sequence in the order of the table
RECURSIVE whereRows(_, _, _)
whereRows(t, criteria, i) ==
    IF i = 0 THEN <<>>
    ELSE IF buildQuery(t[i], criteria) THEN Append(whereRows(t, criteria, i - 1), i)
         ELSE whereRows(t, criteria, i - 1)

\* the sets of k positions of a sequence of n rows
RECURSIVE positions(_, _)
positions(n, k) ==
    IF k = 0 THEN {{}}
    ELSE {D \cup {x} : D \in positions(n, k - 1), x \in 1..n}

\* LIMIT 50 without ORDER BY: any 50 of the rows, all of them when there are fewer
queryLimit(rows) ==
    LET n == Len(rows)
        k == IF n <= QueryLimit THEN 0 ELSE n - QueryLimit
    IN {{rows[i] : i \in (1..n) \ D} : D \in {P \in positions(n, k) : Cardinality(P) = k}}

\* every answer QueryGraph may give: the rows of the persons found
QueryGraph(t, criteria, dbOk) ==
    IF ~dbOk THEN {[fn |-> "QueryGraph", err |-> TRUE, persons |-> {}]}
    ELSE {[fn |-> "QueryGraph", err |-> FALSE, persons |-> rows] :
             rows \in queryLimit(whereRows(t, criteria, Len(t)))}

QuerierInit ==
    /\ SearchIdle
    /\ CacheIdle
    /\ IngestIdle
    /\ HandlerIdle
    /\ PureIdle
    /\ now = 0

QueryGraphCall(t, criteria, dbOk) ==
    /\ callArgs = NoCallArgs
    /\ callArgs' = [fn |-> "QueryGraph", persons |-> t, criteria |-> criteria]
    /\ callResult' \in QueryGraph(t, criteria, dbOk)
    /\ UNCHANGED <<searchVars, cacheVars, now, ingestVars, httpVars, llmResponse,
                   scoreResponse, skills, membership>>

QuerierNext ==
    /\ callArgs = NoCallArgs
    /\ \/ \E t \in OnePersonTables, criteria \in SearchCriterias, dbOk \in BOOLEAN :
             QueryGraphCall(t, criteria, dbOk)
       \/ \E t \in ManyPersonTables, criteria \in SkillCompanyCriterias, dbOk \in BOOLEAN :
             QueryGraphCall(t, criteria, dbOk)

SpecQuerier == QuerierInit /\ [][QuerierNext]_vars

\* the person has an edge of one of the types to the node with this id
HasEdge(p, types, target) == \E e \in p.edges : e.edge_type \in types /\ e.target = target

\* the person has a WORKS_AT or WORKED_AT edge to a company whose node id holds
\* the company's id or whose name holds the requested name, whatever the case
HasCompany(p, company) ==
    \E e \in p.edges :
        /\ e.edge_type \in {"WORKS_AT", "WORKED_AT"}
        /\ \/ Contains(e.target, companyID(company))
           \/ Contains(ToLower(TargetNodes[e.target]), ToLower(company))

\* C23 as first stated: every person the graph retriever returns satisfies all
\* supplied criteria as a conjunction: a HAS_SKILL edge for each requested skill, a
\* WORKS_AT or WORKED_AT edge for each requested company, a GRADUATED_FROM edge
\* for each requested education, equal seniority, and total experience within the
\* min/max range; and at most 50 persons are returned.
C23_AllCriteriaConjoined ==
    (callResult.fn = "QueryGraph" /\ ~callResult.err) =>
        LET c == callArgs.criteria
        IN /\ Cardinality(callResult.persons) <= QueryLimit
           /\ \A p \in {callArgs.persons[i] : i \in callResult.persons} :
                 /\ \A skill \in c.Skills : HasEdge(p, {"HAS_SKILL"}, "skill_" \o skill)
                 /\ \A company \in c.Companies : HasCompany(p, company)
                 /\ \A edu \in c.Education :
                       HasEdge(p, {"GRADUATED_FROM"}, "education_" \o edu)
                 /\ c.Seniority # "" => p.seniority = c.Seniority
                 /\ ~c.MinExperience.nil =>
                       (~p.experience.null /\ p.experience.years >= c.MinExperience.value)
                 /\ ~c.MaxExperience.nil =>
                       (~p.experience.null /\ p.experience.years <= c.MaxExperience.value)

\* C23: every person the graph retriever returns has a HAS_SKILL edge for each
\* requested skill, a WORKS_AT or WORKED_AT edge for at least one of the requested
\* companies when companies are requested, a GRADUATED_FROM edge for at least one
\* of the requested educations when educations are requested, the requested
\* seniority when one is requested, and total experience not below a minimum and
\* not above a maximum that is given and greater than 0; and at most 50 persons
\* are returned.
C23_CriteriaAsQueried ==
    (callResult.fn = "QueryGraph" /\ ~callResult.err) =>
        LET c == callArgs.criteria
        IN /\ Cardinality(callResult.persons) <= QueryLimit
           /\ \A p \in {callArgs.persons[i] : i \in callResult.persons} :
                 /\ \A skill \in c.Skills : HasEdge(p, {"HAS_SKILL"}, "skill_" \o skill)
                 /\ c.Companies # {} => \E company \in c.Companies : HasCompany(p, company)
                 /\ c.Education # {} =>
                       \E edu \in c.Education :
                           HasEdge(p, {"GRADUATED_FROM"}, "education_" \o edu)
                 /\ c.Seniority # "" => p.seniority = c.Seniority
                 /\ (~c.MinExperience.nil /\ c.MinExperience.value > 0) =>
                       (~p.experience.null /\ p.experience.years >= c.MinExperience.value)
                 /\ (~c.MaxExperience.nil /\ c.MaxExperience.value > 0) =>
                       (~p.experience.null /\ p.experience.years <= c.MaxExperience.value)

\* two skills and two companies were asked for, more than 50 persons have both
\* skills and one of the companies, and 50 of them were returned
C23_Witness ==
    /\ callResult.fn = "QueryGraph" /\ ~callResult.err
    /\ Cardinality(callArgs.criteria.Skills) = 2
    /\ Cardinality(callArgs.criteria.Companies) = 2
    /\ Len(callArgs.persons) > QueryLimit
    /\ Cardinality(callResult.persons) = QueryLimit
    /\ \A p \in {callArgs.persons[i] : i \in callResult.persons} :
          HasCompany(p, "acme") /\ ~HasCompany(p, "bolt")

-----------------------------------------------------------------------------
(* Claims about CV ingest *)

\* C3: an upload that arrives after every earlier upload was answered, whose text
\* equals that of a stored upload, and that is answered without a server error,
\* answers "duplicate" with the stored cv_id, and it inserts no cv_files row and
\* creates no job (so that no graph write is made for it).
C3_DuplicateUploadCreatesNothing ==
    \A u \in DOMAIN uploads :
        (/\ uploads[u].pc = "done"
         /\ uploads[u].alone
         /\ uploads[u].existing # 0
         /\ uploads[u].resp.code # 500) =>
            /\ uploads[u].resp.status = "duplicate"
            /\ uploads[u].resp.cv_id = uploads[u].existing
            /\ ~uploads[u].inserted
            /\ uploads[u].jobID = 0

StatusMoves ==
    {<<"pending", "processing">>, <<"processing", "completed">>,
     <<"processing", "failed">>, <<"pending", "failed">>}

\* C9: a job starts pending; its status moves only pending -> processing ->
\* completed or failed, or pending -> failed when the job is dropped because the
\* queue is full; a completed or failed job never changes again; and the worker
\* takes a job at most once.
C9_JobStatusMoves ==
    [][/\ \A j \in DOMAIN jobs' \ DOMAIN jobs : jobs'[j].status = "pending"
       /\ \A j \in DOMAIN jobs :
             /\ j \in DOMAIN jobs'
             /\ \/ jobs'[j].status = jobs[j].status
                \/ <<jobs[j].status, jobs'[j].status>> \in StatusMoves
             /\ (jobs[j].status = "pending" /\ jobs'[j].status = "failed")
                   => (trace'[j].dropped /\ trace'[j].taken = 0)
             /\ jobs[j].status \in {"completed", "failed"} => jobs'[j] = jobs[j]
             /\ trace'[j].taken <= 1]_vars

\* one job was dropped at the full queue and failed, another was taken once and
\* completed
C9_Witness ==
    \E j1, j2 \in DOMAIN jobs :
        /\ jobs[j1].status = "completed" /\ trace[j1].taken = 1
        /\ jobs[j2].status = "failed" /\ trace[j2].dropped /\ trace[j2].taken = 0

\* C10: a job whose extraction or graph write failed ends failed with an error
\* message, and a job is completed only when its graph write succeeded.
C10_FailedWriteFailsJob ==
    \A j \in DOMAIN jobs :
        /\ (trace[j].finished /\ ~trace[j].dbErr
            /\ (trace[j].extract = "err" \/ trace[j].graph = "err"))
              => (jobs[j].status = "failed" /\ jobs[j].error_message # "")
        /\ jobs[j].status = "completed" => trace[j].graph = "ok"

EmbeddingEnqueued == worker.pc = "embed" /\ embeddingQueue' # embeddingQueue

\* C21 as first stated: the embedding job for an ingest job's nodes is enqueued
\* only after the ingest job has been marked completed.
C21_EmbeddingAfterCompleted ==
    [][EmbeddingEnqueued => jobs[worker.job.JobID].status = "completed"]_vars

\* C21: the embedding job for an ingest job's nodes is enqueued only by the worker,
\* after the graph write of that job succeeded and while the job is processing;
\* the job is marked completed after that, never before.
C21_EmbeddingBeforeCompleted ==
    [][/\ embeddingQueue' # embeddingQueue => worker.pc = "embed"
       /\ EmbeddingEnqueued =>
             LET j == worker.job.JobID
             IN /\ jobs[j].status = "processing"
                /\ jobs'[j].status = "processing"
                /\ trace[j].graph = "ok"
                /\ embeddingQueue'[Len(embeddingQueue')].CVID = worker.job.CVFileID
                /\ worker'.pc = "complete"
       /\ \A j \in DOMAIN jobs :
             (jobs[j].status # "completed" /\ jobs'[j].status = "completed") =>
                 /\ worker.pc = "complete" /\ worker.job.JobID = j
                 /\ embeddingQueue' = embeddingQueue]_vars

\* the embedding job of an ingest job is on the queue and the ingest job is yet to
\* be marked completed
C21_Witness ==
    /\ worker.pc = "complete"
    /\ jobs[worker.job.JobID].status = "processing"
    /\ \E i \in DOMAIN embeddingQueue : embeddingQueue[i].CVID = worker.job.CVFileID

\* the cv_files rows with the content hash of a text, and the jobs made for them
FilesOf(text) == {i \in DOMAIN cvFiles : cvFiles[i].content_hash = contentHash(text)}
JobsOf(text) == {j \in DOMAIN jobs : jobs[j].cv_file_id \in FilesOf(text)}

\* C28: when uploads with the same extracted text run at the same time, in any
\* interleaving, there is exactly one cv_files row for the content hash once an
\* upload has saved it, and at most one job is created and processed for it.
C28_OneFileOneJobPerHash ==
    \A text \in Texts :
        /\ Cardinality(FilesOf(text)) <= 1
        /\ (\E u \in DOMAIN uploads : uploads[u].text = text /\ uploads[u].cvID # 0)
              => Cardinality(FilesOf(text)) = 1
        /\ Cardinality(JobsOf(text)) <= 1
        /\ Cardinality({j \in JobsOf(text) : trace[j].taken > 0}) <= 1

\* C29: every job an upload created ends completed or failed, every storage and
\* LLM call returning with success or with an error; no job stays pending or
\* processing for ever.  The handler and the worker deal with a job once and never
\* come back to it: a job they are through with is completed or failed.
C29_JobsEndCompletedOrFailed ==
    \A j \in DOMAIN jobs :
        trace[j].finished => jobs[j].status \in {"completed", "failed"}

-----------------------------------------------------------------------------
(* Claims about the graph tables *)

EdgesFrom(source, edgeType) ==
    {i \in 1..Len(graphEdges) :
        graphEdges[i].source = source /\ graphEdges[i].edge_type = edgeType}

\* C17: every person node has at most one outgoing WORKS_AT edge.
C17_OneWorksAtEdge ==
    \A k \in DOMAIN graphNodes :
        k[1] = "person" => Cardinality(EdgesFrom(k, "WORKS_AT")) <= 1

\* C18: a node upsert keeps one node for every (node_type, node_id), and every
\* property key a node had before the upsert is a key of the node after it.
C18_UpsertKeepsProperties ==
    [][\A k \in DOMAIN graphNodes :
          /\ k \in DOMAIN graphNodes'
          /\ DOMAIN graphNodes[k] \subseteq DOMAIN graphNodes'[k]]_vars

\* C19: graph_edges holds at most one edge for every (source node, target node,
\* edge type).
C19_OneEdgePerTriple ==
    \A i, j \in 1..Len(graphEdges) :
        i # j => graphEdges[i] # graphEdges[j]

-----------------------------------------------------------------------------
(* Claims about HybridSearchHandler *)

\* the handler built a config from the request: a POST with a JSON body and a
\* query, and the engine is there
ReachedValidation ==
    /\ request # NoRequest
    /\ request.Method = "POST"
    /\ request.decoded
    /\ request.Query # ""
    /\ hybridSearchEngine = "set"

\* Search was not invoked: no goroutine was started, no retriever ran, nothing
\* was fused or scored
SearchNotInvoked ==
    /\ pc = "idle"
    /\ \A r \in Retrievers : gor[r] = "none"
    /\ calls = <<>>
    /\ searchResult = NoResult

\* C12: a request whose effective weights (the request's, the default where the
\* request gives none) sum to less than 0.9 or more than 1.1 is answered 400, and
\* Search is not invoked for it.
C12_BadWeightSumIsRefused ==
    (/\ ReachedValidation
     /\ \/ totalWeight(buildConfig(request)) < 9
        \/ totalWeight(buildConfig(request)) > 11) =>
        /\ response.code = 400
        /\ SearchNotInvoked

\* a request that gives all three weights, which sum to 1.3, was refused
C12_Witness ==
    /\ ReachedValidation
    /\ request.BM25Weight = 3 /\ request.VectorWeight = 6 /\ request.GraphWeight = 4
    /\ response.code = 400
    /\ SearchNotInvoked

\* C13: the requests carrying the weights (0.3, 0.4, 0.3) and (0, 0.6, 0.4) pass
\* the validation and Search runs with exactly the weights of the request.
C13_BothTriplesAccepted ==
    (/\ ReachedValidation
     /\ <<request.BM25Weight, request.VectorWeight, request.GraphWeight>>
           \in {<<3, 4, 3>>, <<0, 6, 4>>}) =>
        /\ response.code # 400
        /\ config.BM25Weight = request.BM25Weight
        /\ config.VectorWeight = request.VectorWeight
        /\ config.GraphWeight = request.GraphWeight

-----------------------------------------------------------------------------
(* Claims about Search *)

LastCall == calls[Len(calls)]

\* C1: a retriever's error is never returned by Search: the retriever counts as
\* having returned an empty list and Search returns the fusion of the others.
C1_RetrieverErrorNotReturned ==
    pc = "done" =>
        /\ searchResult.ok
        /\ searchResult.err = ""

\* C2: when ScoreCandidates fails, Search returns successfully, and every
\* returned candidate has LLMScore = FusionScore and an empty LLMReasoning.
C2_ScorerFailureFallsBack ==
    (pc = "done" /\ LastCall.err) =>
        /\ searchResult.ok
        /\ Len(searchResult.list) = Len(fusedCandidates)
        /\ \A i \in 1..Len(searchResult.list) :
              /\ searchResult.list[i].PersonID = fusedCandidates[i].PersonID
              /\ searchResult.list[i].LLMScore = searchResult.list[i].FusionScore
              /\ searchResult.list[i].LLMScore = fusedCandidates[i].FusionScore
              /\ searchResult.list[i].LLMReasoning = ""

\* the scorer failed on two fused candidates, both with a fusion score
C2_Witness ==
    /\ pc = "done"
    /\ LastCall.err
    /\ LastCall.called
    /\ Len(searchResult.list) = 2
    /\ \A i \in 1..2 : searchResult.list[i].LLMScore > 0

\* C4: a list returned by a successful Search is ordered by non-increasing
\* LLMScore, holds no candidate with an empty PersonID or Name, and carries the
\* ranks 1..n in list order.
C4_ResultSortedValidRanked ==
    (pc = "done" /\ searchResult.ok) =>
        \A i \in 1..Len(searchResult.list) :
            /\ searchResult.list[i].PersonID # ""
            /\ searchResult.list[i].Name # ""
            /\ searchResult.list[i].Rank = i
            /\ \A j \in 1..Len(searchResult.list) :
                  i < j => searchResult.list[i].LLMScore >= searchResult.list[j].LLMScore

\* the candidates fuseResults produced for the lists Search received, in one of the
\* orders it may leave them in
FusedNow == CHOOSE f \in fuseResults(bm25Results, vectorResults, graphResults, config) : TRUE

FusedKey(c) == <<c.CandidateID, c.PersonID>>

\* C14: with FinalTopN = 0 a successful Search returns every candidate that fusion
\* produced; with FinalTopN = N > 0 it returns at most N candidates, each of them
\* one that fewer than N fused candidates beat on FusionScore.
C14_FinalTopNLimitsResult ==
    (pc = "done" /\ searchResult.ok) =>
        LET returned == {FusedKey(searchResult.list[i]) : i \in 1..Len(searchResult.list)}
            fusedKeys == {FusedKey(FusedNow[i]) : i \in 1..Len(FusedNow)}
        IN IF config.FinalTopN = 0
           THEN returned = fusedKeys /\ Len(searchResult.list) = Len(FusedNow)
           ELSE /\ Len(searchResult.list) <= config.FinalTopN
                /\ \A i \in 1..Len(searchResult.list) :
                      /\ FusedKey(searchResult.list[i]) \in fusedKeys
                      /\ Cardinality({j \in 1..Len(FusedNow) :
                             FusedNow[j].FusionScore > searchResult.list[i].FusionScore})
                            < config.FinalTopN

\* every retriever goroutine has delivered its list, and Search holds the three
\* lists
AllDelivered ==
    /\ recvCount = 3
    /\ \A r \in Retrievers : gor[r] = "done" /\ world[r].kind # "err"
    /\ bm25Results = world.bm25.list
    /\ vectorResults = world.vector.list
    /\ graphResults = world.graph.list

\* C20: within a Search call fuseResults runs only when all three retriever
\* goroutines have delivered their lists, whatever the order in which they
\* answer, and it fuses exactly these three lists.
C20_FusionAfterAllRetrievers ==
    /\ [](pc = "fuse" => AllDelivered)
    /\ [][pc' = "score" =>
            /\ pc = "fuse"
            /\ AllDelivered
            /\ \E f \in fuseResults(world.bm25.list, world.vector.list, world.graph.list,
                                    config) :
                  fusedCandidates' = topN(enrichCandidates(f, world), config)]_vars

\* fusion has run on three lists that each hold a result
C20_Witness ==
    /\ pc = "score"
    /\ Len(bm25Results) > 0 /\ Len(vectorResults) > 0 /\ Len(graphResults) > 0
    /\ Len(fusedCandidates) > 0

\* C27: every retriever goroutine that Search started terminates, also when Search
\* returns early on another retriever's error.  A goroutine that offers its list
\* on its unbuffered result channel ends only when Search receives it, and Search
\* receives only while it waits in its select loop, to which it never returns: no
\* goroutine is at its send once Search has left the loop.
C27_RetrieversTerminate ==
    \A r \in Retrievers : gor[r] = "sending" => pc = "wait"

\* the scorer returned no score for this person id
NotScored(id) ==
    \A s \in DOMAIN LastCall.scores : LastCall.scores[s].PersonID # id

\* C30: the candidates a successful Search returns are candidates of the fused and
\* truncated list, each at most once: a score the LLM returns for an unknown or a
\* repeated person id adds no candidate and repeats none, and a candidate the LLM
\* did not score has its FusionScore as its LLMScore.
C30_ResultWithinFused ==
    (pc = "done" /\ searchResult.ok) =>
        LET res == searchResult.list
        IN /\ Len(res) <= Len(fusedCandidates)
           /\ \A i, j \in DOMAIN res : i # j => FusedKey(res[i]) # FusedKey(res[j])
           /\ \A i \in DOMAIN res :
                 \E k \in DOMAIN fusedCandidates :
                     /\ FusedKey(fusedCandidates[k]) = FusedKey(res[i])
                     /\ res[i].FusionScore = fusedCandidates[k].FusionScore
                     /\ (LastCall.err \/ NotScored(res[i].PersonID))
                           => res[i].LLMScore = fusedCandidates[k].FusionScore

\* the LLM scored a person id that is no candidate, and a returned candidate that
\* it did not score has its fusion score
C30_Witness ==
    /\ pc = "done" /\ searchResult.ok
    /\ LastCall.called /\ ~LastCall.err
    /\ \E s \in DOMAIN LastCall.scores :
          \A k \in DOMAIN fusedCandidates :
              fusedCandidates[k].PersonID # LastCall.scores[s].PersonID
    /\ \E i \in DOMAIN searchResult.list :
          /\ NotScored(searchResult.list[i].PersonID)
          /\ searchResult.list[i].LLMScore = searchResult.list[i].FusionScore
          /\ searchResult.list[i].FusionScore > 0

\* C8: a Search call that sends the scorer the same query and the same set of
\* candidate ids as an earlier, successfully scored call no longer than the TTL
\* before it does not invoke the LLM and uses the scores of the earlier call.
C8_SecondSearchUsesCache ==
    \A i, j \in 1..Len(calls) :
        (/\ i < j
         /\ calls[i].sent /\ ~calls[i].err
         /\ calls[j].sent
         /\ calls[j].query = calls[i].query
         /\ SameIds(calls[j].ids, calls[i].ids)
         /\ calls[j].at - calls[i].at <= CacheTTL)
        => /\ ~calls[j].called
           /\ calls[j].scores = calls[i].scores

====
